---- MODULE Spec2Model ----
(***************************************************************************)
(* A model of the forum's content, reaction and session data layer.        *)
(* The relational store is one set of rows per table; every SQL statement   *)
(* is atomic, and a transaction that returns early is rolled back.          *)
(* Strings are sequences of symbols; the symbol " " is white space.         *)
(***************************************************************************)
EXTENDS Integers, Sequences, FiniteSets, TLC

VARIABLES
    users,            \* rows of table users
    categories,       \* rows of table categories
    posts,            \* rows of table posts
    post_categories,  \* rows of table post_categories
    comments,         \* rows of table comments
    post_likes,       \* rows of table post_likes
    comment_likes,    \* rows of table comment_likes
    sessions,         \* rows of table sessions
    seq,              \* sqlite_sequence: the last AUTOINCREMENT id of each table
    tokens,           \* the session tokens generated so far: tokens[k] is the user of token k
    ended,            \* the tokens whose session has been ended, and how
    now,              \* the wall clock, in hours
    pc,               \* where each request worker stands in its handler
    req,              \* the arguments and locals of each worker's call
    res               \* what each worker's last call returned

tables == <<users, categories, posts, post_categories, comments,
            post_likes, comment_likes, sessions, seq>>
vars == <<users, categories, posts, post_categories, comments,
          post_likes, comment_likes, sessions, seq, tokens, ended, now, pc, req, res>>

-----------------------------------------------------------------------------
(* Bounds of the model *)

MaxPosts == 1
MaxComments == 1
MaxLikes == 2
MaxTokens == 3
MaxTime == 48
TickHours == 12
MaxUsers == 3
MaxListed == 101

(* Inputs the calls are tried with *)

Workers == {"w1", "w2"}
UserIDInputs == {0, 1, 2}
AuthorInputs == {0, 1, 3}
CommenterInputs == {0, 2, 3}
PostIDInputs == 0 .. MaxPosts
CommentIDInputs == 0 .. MaxComments
ReactionInputs == {-1, 0, 1, 2}
General == <<"General">>
TitleInputs == {<<" ">>, <<" ", "Hello", " ">>}
ContentInputs == {<<>>, <<"World">>}
CommentInputs == {<<" ">>, <<"Nice", " ">>}
CategoryInputs == {<<>>, << <<" ", "tech">>, General, <<" ">>, <<"tech">>, <<"Tech">> >>}
Secret == <<"s", "e", "c", "r", "e", "t">>
Hunter == <<"h", "u", "n", "t", "e", "r">>
EmailInputs == {<<"a", "@", "x.com">>, <<"c", "@", "x.com">>, <<"c", "x.com">>}
UsernameInputs == {<<"alice">>, <<"carol">>, <<"ca", " ", "rol">>, <<" ">>}
PasswordInputs == {Secret, <<"p", "w">>}
ReactorInputs == {0, 1}
TokenInputs == 0 .. MaxTokens

-----------------------------------------------------------------------------
(* Errors, by the text the code returns *)

Nil == "nil"
ErrNoRows == "sql: no rows in result set"
ErrForeignKey == "FOREIGN KEY constraint failed"
ErrUnique == "UNIQUE constraint failed"
ErrCheck == "CHECK constraint failed"
ErrScanNull == "converting NULL to int is unsupported"
ErrStorage == "storage failure"
ErrInvalidPost == "invalid post data"
ErrInvalidComment == "invalid comment data"
ErrInvalidIDs == "invalid ids"
ErrInvalidReaction == "invalid reaction"
ErrInvalidDelete == "invalid post ID or user ID"
ErrPostNotFound == "post not found"
ErrNotYourPost == "you can only delete your own posts"
ErrInvalidDeleteComment == "invalid comment ID or user ID"
ErrCommentNotFound == "comment not found"
ErrNotYourComment == "you can only delete your own comments"
ErrInvalidEmail == "invalid email format"
ErrUsernameEmpty == "username cannot be empty"
ErrUsernameSpaces == "username cannot contain spaces"
ErrPasswordShort == "password must be at least 6 characters long"
ErrEmailTaken == "email already registered"
ErrUsernameTaken == "username already taken"
ErrCreateUser == "failed to create user: UNIQUE constraint failed"
ErrInvalidCredentials == "invalid email or password"
ErrInvalidSession == "invalid session"
ErrSessionExpired == "session expired"

-----------------------------------------------------------------------------
(* The store *)

DB == [users |-> users, categories |-> categories, posts |-> posts,
       post_categories |-> post_categories, comments |-> comments,
       post_likes |-> post_likes, comment_likes |-> comment_likes,
       sessions |-> sessions, seq |-> seq]

Commit(d) ==
    /\ users' = d.users
    /\ categories' = d.categories
    /\ posts' = d.posts
    /\ post_categories' = d.post_categories
    /\ comments' = d.comments
    /\ post_likes' = d.post_likes
    /\ comment_likes' = d.comment_likes
    /\ sessions' = d.sessions
    /\ seq' = d.seq

ForeignKeysOff == FALSE

ForeignKeysOn == TRUE

IDs(rows) == {r.id : r \in rows}

SeedCategories ==
    {[id |-> 1, name |-> General], [id |-> 2, name |-> <<"Technology">>],
     [id |-> 3, name |-> <<"Gaming">>], [id |-> 4, name |-> <<"Sports">>],
     [id |-> 5, name |-> <<"Entertainment">>]}

(* bcrypt: the Blowfish key schedule reads the first 72 bytes of the password *)
(* and no more. The hash stands for the key it was generated from, and a       *)
(* password matches a hash exactly when it gives that key. A symbol of a       *)
(* password is one byte.                                                       *)
BcryptMaxLen == 72

BlowfishKey(password) ==
    IF Len(password) > BcryptMaxLen THEN SubSeq(password, 1, BcryptMaxLen) ELSE password

GenerateFromPassword(password) == [bcrypt |-> BlowfishKey(password)]
CompareHashAndPassword(hash, password) == hash.bcrypt = BlowfishKey(password)

RegisteredUsers ==
    {[id |-> 1, email |-> <<"a", "@", "x.com">>, username |-> <<"alice">>,
      password_hash |-> GenerateFromPassword(Secret)],
     [id |-> 2, email |-> <<"b", "@", "x.com">>, username |-> <<"bob">>,
      password_hash |-> GenerateFromPassword(Hunter)]}

RECURSIVE TrimLeft(_)
TrimLeft(s) == IF s # <<>> /\ Head(s) = " " THEN TrimLeft(Tail(s)) ELSE s

RECURSIVE TrimRight(_)
TrimRight(s) ==
    IF s # <<>> /\ s[Len(s)] = " " THEN TrimRight(SubSeq(s, 1, Len(s) - 1)) ELSE s

TrimSpace(s) == TrimRight(TrimLeft(s))

-----------------------------------------------------------------------------
(* Posts *)

(* A variant of associateCategoriesTx whose lookup ignores case. *)
Lower(name) == [i \in DOMAIN name |-> IF name[i] = "Tech" THEN "tech" ELSE name[i]]

RECURSIVE associateCategoriesTxNoCase(_, _, _)
associateCategoriesTxNoCase(d, postID, categoryNames) ==
    IF categoryNames = <<>> THEN d
    ELSE
        LET name == TrimSpace(Head(categoryNames))
            found == {c \in d.categories : Lower(c.name) = Lower(name)}
            catID == IF found = {} THEN d.seq.categories + 1
                     ELSE (CHOOSE c \in found : TRUE).id
            d1 == IF found = {}
                  THEN [d EXCEPT !.categories = @ \cup {[id |-> catID, name |-> name]},
                                 !.seq.categories = catID]
                  ELSE d
            d2 == [d1 EXCEPT !.post_categories =
                       @ \cup {[post_id |-> postID, category_id |-> catID]}]
        IN  IF name = <<>>
            THEN associateCategoriesTxNoCase(d, postID, Tail(categoryNames))
            ELSE associateCategoriesTxNoCase(d2, postID, Tail(categoryNames))

RECURSIVE associateCategoriesTx(_, _, _)
associateCategoriesTx(d, postID, categoryNames) ==
    IF categoryNames = <<>> THEN d
    ELSE
        LET name == TrimSpace(Head(categoryNames))
            found == {c \in d.categories : c.name = name}
            catID == IF found = {} THEN d.seq.categories + 1
                     ELSE (CHOOSE c \in found : TRUE).id
            d1 == IF found = {}
                  THEN [d EXCEPT !.categories = @ \cup {[id |-> catID, name |-> name]},
                                 !.seq.categories = catID]
                  ELSE d
            d2 == [d1 EXCEPT !.post_categories =
                       @ \cup {[post_id |-> postID, category_id |-> catID]}]
        IN  IF name = <<>>
            THEN associateCategoriesTx(d, postID, Tail(categoryNames))
            ELSE associateCategoriesTx(d2, postID, Tail(categoryNames))

(* A variant of CreatePost that validates after its INSERT and without        *)
(* rolling back.                                                              *)
CreatePostTxValidatesLate(d, authorID, title, content, categoryNames) ==
    LET t == TrimSpace(title)
        c == TrimSpace(content)
        postID == d.seq.posts + 1
        d1 == [d EXCEPT !.posts = @ \cup {[id |-> postID, author_id |-> authorID,
                                           title |-> t, content |-> c,
                                           created_at |-> now]},
                        !.seq.posts = postID]
    IN  IF ForeignKeysOn /\ authorID \notin IDs(d.users)
        THEN [db |-> d, id |-> 0, err |-> ErrForeignKey]
        ELSE IF authorID <= 0 \/ t = <<>> \/ c = <<>>
        THEN [db |-> d1, id |-> 0, err |-> ErrInvalidPost]
        ELSE [db |-> associateCategoriesTx(d1, postID, categoryNames),
              id |-> postID, err |-> Nil]

(* A variant of CreatePost that stores the title as it was given. *)
CreatePostTxStoresRawTitle(d, authorID, title, content, categoryNames) ==
    LET t == TrimSpace(title)
        c == TrimSpace(content)
        postID == d.seq.posts + 1
        d1 == [d EXCEPT !.posts = @ \cup {[id |-> postID, author_id |-> authorID,
                                           title |-> title, content |-> c,
                                           created_at |-> now]},
                        !.seq.posts = postID]
    IN  IF authorID <= 0 \/ t = <<>> \/ c = <<>>
        THEN [db |-> d, id |-> 0, err |-> ErrInvalidPost]
        ELSE IF ForeignKeysOn /\ authorID \notin IDs(d.users)
        THEN [db |-> d, id |-> 0, err |-> ErrForeignKey]
        ELSE [db |-> associateCategoriesTx(d1, postID, categoryNames),
              id |-> postID, err |-> Nil]

CreatePostTx(d, authorID, title, content, categoryNames) ==
    LET t == TrimSpace(title)
        c == TrimSpace(content)
        postID == d.seq.posts + 1
        d1 == [d EXCEPT !.posts = @ \cup {[id |-> postID, author_id |-> authorID,
                                           title |-> t, content |-> c,
                                           created_at |-> now]},
                        !.seq.posts = postID]
    IN  IF authorID <= 0 \/ t = <<>> \/ c = <<>>
        THEN [db |-> d, id |-> 0, err |-> ErrInvalidPost]
        ELSE IF ForeignKeysOn /\ authorID \notin IDs(d.users)
        THEN [db |-> d, id |-> 0, err |-> ErrForeignKey]
        ELSE [db |-> associateCategoriesTx(d1, postID, categoryNames),
              id |-> postID, err |-> Nil]

CreatePost(authorID, title, content, categoryNames) ==
    /\ seq.posts < MaxPosts
    /\ LET r == CreatePostTx(DB, authorID, title, content, categoryNames)
       IN  Commit(r.db)
    /\ UNCHANGED <<tokens, ended, now, pc, req, res>>

(* CreatePost as a request worker runs it. The transaction is deferred: it    *)
(* takes the store's write lock at its first statement, the INSERT of the      *)
(* post, where the busy handler makes it wait while another transaction        *)
(* holds the lock, and it keeps the lock until it commits or rolls back. work    *)
(* is the store as the transaction sees it, rest the names still to link.       *)
WriteLockHeld(w) == pc[w] \in {"cp_associate", "cp_commit"}

CreatePostValidate(w, authorID, title, content, categoryNames) ==
    LET t == TrimSpace(title)
        c == TrimSpace(content)
        invalid == authorID <= 0 \/ t = <<>> \/ c = <<>>
        others == \E o \in Workers \ {w} : pc[o] \in {"cp_insert", "cp_associate", "cp_commit"}
    IN  /\ pc[w] \in {"idle", "done"}
        /\ pc' = [pc EXCEPT ![w] = IF invalid THEN "done" ELSE "cp_insert"]
        /\ req' = [req EXCEPT ![w] = [op |-> "create_post", authorID |-> authorID,
                                      title |-> t, content |-> c,
                                      names |-> categoryNames]]
        /\ res' = [o \in Workers |->
                      IF o = w
                      THEN [err |-> IF invalid THEN ErrInvalidPost ELSE Nil, id |-> 0,
                            raced |-> ~invalid /\ others]
                      ELSE IF ~invalid /\ pc[o] \in {"cp_insert", "cp_associate", "cp_commit"}
                      THEN [res[o] EXCEPT !.raced = TRUE]
                      ELSE res[o]]
        /\ UNCHANGED <<tables, tokens, ended, now>>

(* A variant of the INSERT that does not wait for the write lock. *)
CreatePostInsertNoWriteLock(w) ==
    /\ pc[w] = "cp_insert"
    /\ IF ForeignKeysOn /\ req[w].authorID \notin IDs(users)
       THEN /\ pc' = [pc EXCEPT ![w] = "done"]
            /\ res' = [res EXCEPT ![w].err = ErrForeignKey]
            /\ UNCHANGED req
       ELSE /\ pc' = [pc EXCEPT ![w] = "cp_associate"]
            /\ req' = [req EXCEPT ![w] =
                   [op |-> "create_post", authorID |-> req[w].authorID,
                    title |-> req[w].title, content |-> req[w].content,
                    names |-> req[w].names, rest |-> req[w].names,
                    postID |-> seq.posts + 1,
                    work |-> [DB EXCEPT !.posts = @ \cup
                                 {[id |-> seq.posts + 1, author_id |-> req[w].authorID,
                                   title |-> req[w].title, content |-> req[w].content,
                                   created_at |-> now]},
                              !.seq.posts = @ + 1]]]
            /\ UNCHANGED res
    /\ UNCHANGED <<tables, tokens, ended, now>>

CreatePostInsert(w) ==
    /\ pc[w] = "cp_insert"
    /\ \A o \in Workers \ {w} : ~WriteLockHeld(o)
    /\ IF ForeignKeysOn /\ req[w].authorID \notin IDs(users)
       THEN /\ pc' = [pc EXCEPT ![w] = "done"]
            /\ res' = [res EXCEPT ![w].err = ErrForeignKey]
            /\ UNCHANGED req
       ELSE /\ pc' = [pc EXCEPT ![w] = "cp_associate"]
            /\ req' = [req EXCEPT ![w] =
                   [op |-> "create_post", authorID |-> req[w].authorID,
                    title |-> req[w].title, content |-> req[w].content,
                    names |-> req[w].names, rest |-> req[w].names,
                    postID |-> seq.posts + 1,
                    work |-> [DB EXCEPT !.posts = @ \cup
                                 {[id |-> seq.posts + 1, author_id |-> req[w].authorID,
                                   title |-> req[w].title, content |-> req[w].content,
                                   created_at |-> now]},
                              !.seq.posts = @ + 1]]]
            /\ UNCHANGED res
    /\ UNCHANGED <<tables, tokens, ended, now>>

(* One turn of the loop of associateCategoriesTx. *)
CreatePostAssociate(w) ==
    /\ pc[w] = "cp_associate"
    /\ IF req[w].rest = <<>>
       THEN /\ pc' = [pc EXCEPT ![w] = "cp_commit"]
            /\ UNCHANGED req
       ELSE /\ req' = [req EXCEPT
                          ![w].work = associateCategoriesTx(req[w].work, req[w].postID,
                                                            <<Head(req[w].rest)>>),
                          ![w].rest = Tail(req[w].rest)]
            /\ UNCHANGED pc
    /\ UNCHANGED <<tables, tokens, ended, now, res>>

CreatePostCommit(w) ==
    /\ pc[w] = "cp_commit"
    /\ Commit(req[w].work)
    /\ pc' = [pc EXCEPT ![w] = "done"]
    /\ res' = [res EXCEPT ![w].err = Nil, ![w].id = req[w].postID]
    /\ UNCHANGED <<tokens, ended, now, req>>

(* The two queries of GetPostByID, on a store d. *)
QueryCategoriesForPost(d, postID) ==
    {c.name : c \in {c \in d.categories :
        [post_id |-> postID, category_id |-> c.id] \in d.post_categories}}

QueryPostByID(d, id) ==
    LET found == {p \in d.posts : p.id = id}
    IN  IF found = {}
        THEN [ok |-> FALSE, err |-> ErrNoRows]
        ELSE [ok |-> TRUE, err |-> Nil, post |-> CHOOSE p \in found : TRUE,
              Categories |-> QueryCategoriesForPost(d, id)]

listCategoriesForPost(postID) == QueryCategoriesForPost(DB, postID)

GetPostByID(id) == QueryPostByID(DB, id)

(* GetPostByID as a request worker runs it: its two queries are two         *)
(* statements on the connection pool, outside any transaction, so a write   *)
(* of another request can commit between them. The worker keeps the row it  *)
(* read, and linked records the category names the store held for the post  *)
(* at that first query.                                                      *)
GetPostByIDQueryRow(w, id) ==
    /\ pc[w] \in {"idle", "done"}
    /\ LET r == QueryPostByID(DB, id)
       IN  IF r.ok
           THEN /\ pc' = [pc EXCEPT ![w] = "get_post"]
                /\ req' = [req EXCEPT ![w] = [op |-> "get_post", target |-> id,
                                              post |-> r.post, linked |-> r.Categories]]
                /\ res' = [res EXCEPT ![w] = [err |-> Nil, raced |-> FALSE]]
           ELSE /\ pc' = [pc EXCEPT ![w] = "done"]
                /\ req' = [req EXCEPT ![w] = [op |-> "get_post", target |-> id]]
                /\ res' = [res EXCEPT ![w] = [err |-> r.err, raced |-> FALSE]]
    /\ UNCHANGED <<tables, tokens, ended, now>>

GetPostByIDQueryCategories(w) ==
    /\ pc[w] = "get_post"
    /\ pc' = [pc EXCEPT ![w] = "done"]
    /\ res' = [res EXCEPT ![w] = [err |-> Nil, raced |-> FALSE, post |-> req[w].post,
                                  Categories |-> listCategoriesForPost(req[w].post.id)]]
    /\ UNCHANGED <<tables, tokens, ended, now, req>>

(* DELETE FROM comments WHERE post_id = ?: with foreign keys on, the rows of *)
(* comment_likes that reference a deleted comment go with it (ON DELETE     *)
(* CASCADE).                                                                *)
ExecDeleteCommentsOfPost(d, postID) ==
    LET gone == {c.id : c \in {c \in d.comments : c.post_id = postID}}
    IN  [d EXCEPT !.comments = {c \in @ : c.post_id # postID},
                  !.comment_likes = IF ForeignKeysOn
                                    THEN {r \in @ : r.comment_id \notin gone}
                                    ELSE @]

(* DELETE FROM posts WHERE id = ?, with its cascades. *)
ExecDeletePostRow(d, postID) ==
    LET d1 == [d EXCEPT !.posts = {p \in @ : p.id # postID}]
    IN  IF ForeignKeysOn
        THEN [ExecDeleteCommentsOfPost(d1, postID) EXCEPT
                  !.post_likes = {r \in @ : r.post_id # postID},
                  !.post_categories = {r \in @ : r.post_id # postID}]
        ELSE d1

DeletePostTxNoPostRow(d, postID, userID) ==
    LET found == {p \in d.posts : p.id = postID}
        ofPost == {c.id : c \in {c \in d.comments : c.post_id = postID}}
        d1 == [d EXCEPT !.post_likes = {r \in @ : r.post_id # postID}]
        d2 == [d1 EXCEPT !.comment_likes = {r \in @ : r.comment_id \notin ofPost}]
        d3 == ExecDeleteCommentsOfPost(d2, postID)
        d4 == [d3 EXCEPT !.post_categories = {r \in @ : r.post_id # postID}]
    IN  IF postID <= 0 \/ userID <= 0 THEN [db |-> d, err |-> ErrInvalidDelete]
        ELSE IF found = {} THEN [db |-> d, err |-> ErrPostNotFound]
        ELSE IF (CHOOSE p \in found : TRUE).author_id # userID
        THEN [db |-> d, err |-> ErrNotYourPost]
        ELSE [db |-> d4, err |-> Nil]

DeletePostTxNoAuthorCheck(d, postID, userID) ==
    LET found == {p \in d.posts : p.id = postID}
        ofPost == {c.id : c \in {c \in d.comments : c.post_id = postID}}
        d1 == [d EXCEPT !.post_likes = {r \in @ : r.post_id # postID}]
        d2 == [d1 EXCEPT !.comment_likes = {r \in @ : r.comment_id \notin ofPost}]
        d3 == ExecDeleteCommentsOfPost(d2, postID)
        d4 == [d3 EXCEPT !.post_categories = {r \in @ : r.post_id # postID}]
        d5 == ExecDeletePostRow(d4, postID)
    IN  IF postID <= 0 \/ userID <= 0 THEN [db |-> d, err |-> ErrInvalidDelete]
        ELSE IF found = {} THEN [db |-> d, err |-> ErrPostNotFound]
        ELSE [db |-> d5, err |-> Nil]

(* A variant of DeletePost whose comment_likes DELETE has no subquery. *)
DeletePostTxClearsAllCommentLikes(d, postID, userID) ==
    LET found == {p \in d.posts : p.id = postID}
        d1 == [d EXCEPT !.post_likes = {r \in @ : r.post_id # postID}]
        d2 == [d1 EXCEPT !.comment_likes = {}]
        d3 == ExecDeleteCommentsOfPost(d2, postID)
        d4 == [d3 EXCEPT !.post_categories = {r \in @ : r.post_id # postID}]
        d5 == ExecDeletePostRow(d4, postID)
    IN  IF postID <= 0 \/ userID <= 0 THEN [db |-> d, err |-> ErrInvalidDelete]
        ELSE IF found = {} THEN [db |-> d, err |-> ErrPostNotFound]
        ELSE IF (CHOOSE p \in found : TRUE).author_id # userID
        THEN [db |-> d, err |-> ErrNotYourPost]
        ELSE [db |-> d5, err |-> Nil]

DeletePostTx(d, postID, userID) ==
    LET found == {p \in d.posts : p.id = postID}
        ofPost == {c.id : c \in {c \in d.comments : c.post_id = postID}}
        d1 == [d EXCEPT !.post_likes = {r \in @ : r.post_id # postID}]
        d2 == [d1 EXCEPT !.comment_likes = {r \in @ : r.comment_id \notin ofPost}]
        d3 == ExecDeleteCommentsOfPost(d2, postID)
        d4 == [d3 EXCEPT !.post_categories = {r \in @ : r.post_id # postID}]
        d5 == ExecDeletePostRow(d4, postID)
    IN  IF postID <= 0 \/ userID <= 0 THEN [db |-> d, err |-> ErrInvalidDelete]
        ELSE IF found = {} THEN [db |-> d, err |-> ErrPostNotFound]
        ELSE IF (CHOOSE p \in found : TRUE).author_id # userID
        THEN [db |-> d, err |-> ErrNotYourPost]
        ELSE [db |-> d5, err |-> Nil]

DeletePost(postID, userID) ==
    /\ LET r == DeletePostTx(DB, postID, userID)
       IN  Commit(r.db)
    /\ UNCHANGED <<tokens, ended, now, pc, req, res>>

-----------------------------------------------------------------------------
(* Comments *)

CreateCommentExec(d, postID, authorID, content) ==
    LET c == TrimSpace(content)
        commentID == d.seq.comments + 1
    IN  IF postID <= 0 \/ authorID <= 0 \/ c = <<>>
        THEN [db |-> d, id |-> 0, err |-> ErrInvalidComment]
        ELSE IF ForeignKeysOn
                /\ (postID \notin IDs(d.posts) \/ authorID \notin IDs(d.users))
        THEN [db |-> d, id |-> 0, err |-> ErrForeignKey]
        ELSE [db |-> [d EXCEPT !.comments = @ \cup
                         {[id |-> commentID, post_id |-> postID,
                           author_id |-> authorID, content |-> c,
                           created_at |-> now]},
                      !.seq.comments = commentID],
              id |-> commentID, err |-> Nil]

CreateComment(postID, authorID, content) ==
    /\ seq.comments < MaxComments
    /\ LET r == CreateCommentExec(DB, postID, authorID, content)
       IN  Commit(r.db)
    /\ UNCHANGED <<tokens, ended, now, pc, req, res>>

(* The rows of a query ordered by created_at: rows of equal created_at come *)
(* in any order the store returns them in.                                   *)
OrderedByCreatedAt(rows) ==
    LET n == Cardinality(rows)
        earlier == [r \in rows |-> Cardinality({x \in rows : x.created_at < r.created_at})]
        tied == {r \in rows : \E x \in rows : x # r /\ x.created_at = r.created_at}
        free == {i \in 1 .. n : \A r \in rows \ tied : earlier[r] # i - 1}
    IN  {[i \in 1 .. n |->
             IF i \in free THEN f[i]
             ELSE CHOOSE r \in rows \ tied : earlier[r] = i - 1] :
         f \in {f \in [free -> tied] :
                  /\ \A i, j \in free : i # j => f[i] # f[j]
                  /\ \A i, j \in free : i < j => f[i].created_at <= f[j].created_at}}

CommentLimitMax == 100
CommentLimitDefault == 50

Min(a, b) == IF a < b THEN a ELSE b

(* The results ListCommentsByPostID can return. *)
ListCommentsByPostID(postID, limit, offset) ==
    LET lim == IF limit <= 0 \/ limit > CommentLimitMax THEN CommentLimitDefault ELSE limit
        off == IF offset < 0 THEN 0 ELSE offset
    IN  {SubSeq(o, off + 1, Min(Len(o), off + lim)) :
            o \in OrderedByCreatedAt({c \in comments : c.post_id = postID})}

(* ListCommentsWithDetails asks for the first hundred comments of the post. *)
ListCommentsWithDetailsDefaultLimit(postID) == ListCommentsByPostID(postID, 0, 0)

ListCommentsWithDetails(postID) == ListCommentsByPostID(postID, 100, 0)

-----------------------------------------------------------------------------
(* Listing posts *)

PostLimitMax == 100
PostLimitDefault == 20

(* ListOptions with every field at its zero value. *)
NoOptions ==
    [Limit |-> 0, Offset |-> 0, CategoryName |-> <<>>, AuthorID |-> 0,
     LikedByUser |-> 0, Search |-> <<>>, OrderDesc |-> FALSE]

ListLimitClamps(limit) ==
    IF limit <= 0 THEN PostLimitDefault
    ELSE IF limit > PostLimitMax THEN PostLimitMax ELSE limit

ListLimit(limit) ==
    IF limit <= 0 \/ limit > PostLimitMax THEN PostLimitDefault ELSE limit

ListOffset(offset) == IF offset < 0 THEN 0 ELSE offset

(* text LIKE '%s%': s occurs in text, letters compared without case. *)
Like(text, s) ==
    \E i \in 1 .. Len(text) - Len(s) + 1 :
        Lower(SubSeq(text, i, i + Len(s) - 1)) = Lower(s)

JoinedRowsAnyReaction(d, opt) ==
    UNION {{[p |-> p, name |-> n] :
               n \in IF QueryCategoriesForPost(d, p.id) = {} THEN {<<>>}
                     ELSE QueryCategoriesForPost(d, p.id)} :
           p \in {p \in d.posts :
                    opt.LikedByUser > 0 =>
                        \E pl \in d.post_likes :
                            pl.post_id = p.id /\ pl.user_id = opt.LikedByUser}}

(* FROM posts p LEFT JOIN post_categories pc LEFT JOIN categories c, and     *)
(* JOIN post_likes pl when LikedByUser is given: one row for each post and   *)
(* each category linked to it, a post without links keeping one row whose    *)
(* category name is NULL, written <<>> here.                                  *)
JoinedRows(d, opt) ==
    UNION {{[p |-> p, name |-> n] :
               n \in IF QueryCategoriesForPost(d, p.id) = {} THEN {<<>>}
                     ELSE QueryCategoriesForPost(d, p.id)} :
           p \in {p \in d.posts :
                    opt.LikedByUser > 0 =>
                        \E pl \in d.post_likes :
                            /\ pl.post_id = p.id
                            /\ pl.user_id = opt.LikedByUser
                            /\ pl.reaction = 1}}

WhereListPosts(j, opt) ==
    /\ opt.CategoryName # <<>> => j.name = opt.CategoryName
    /\ opt.AuthorID > 0 => j.p.author_id = opt.AuthorID
    /\ TrimSpace(opt.Search) # <<>> =>
           \/ Like(j.p.title, TrimSpace(opt.Search))
           \/ Like(j.p.content, TrimSpace(opt.Search))

Reverse(o) == [i \in 1 .. Len(o) |-> o[Len(o) + 1 - i]]

(* The query without DISTINCT: one result for each joined row. *)
QueryListPostsNoDistinct(d, opt) ==
    LET rows == {[p |-> j.p, name |-> j.name, created_at |-> j.p.created_at] :
                    j \in {j \in JoinedRows(d, opt) : WhereListPosts(j, opt)}}
        lim == ListLimit(opt.Limit)
        off == ListOffset(opt.Offset)
    IN  {[i \in 1 .. Len(page) |->
             [post |-> page[i].p, Categories |-> QueryCategoriesForPost(d, page[i].p.id)]] :
         page \in {SubSeq(IF opt.OrderDesc THEN Reverse(o) ELSE o,
                          off + 1, Min(Len(o), off + lim)) :
                      o \in OrderedByCreatedAt(rows)}}

(* The results ListPosts can return on a store d: the distinct posts of the  *)
(* joined rows that pass the WHERE clause, ordered by created_at, cut to the  *)
(* page, each with the names listCategoriesForPost finds for it.              *)
QueryListPosts(d, opt) ==
    LET rows == {j.p : j \in {j \in JoinedRows(d, opt) : WhereListPosts(j, opt)}}
        lim == ListLimit(opt.Limit)
        off == ListOffset(opt.Offset)
    IN  {[i \in 1 .. Len(page) |->
             [post |-> page[i], Categories |-> QueryCategoriesForPost(d, page[i].id)]] :
         page \in {SubSeq(IF opt.OrderDesc THEN Reverse(o) ELSE o,
                          off + 1, Min(Len(o), off + lim)) :
                      o \in OrderedByCreatedAt(rows)}}

ListPosts(opt) == QueryListPosts(DB, opt)

ListPostsLikedByUser(userID, limit, offset) ==
    ListPosts([NoOptions EXCEPT !.LikedByUser = userID, !.Limit = limit,
                                !.Offset = offset, !.OrderDesc = TRUE])

GetPostsByUserID(userID) ==
    ListPosts([NoOptions EXCEPT !.AuthorID = userID, !.Limit = 100, !.OrderDesc = TRUE])

GetLikedPostsByUserID(userID) ==
    ListPosts([NoOptions EXCEPT !.LikedByUser = userID, !.Limit = 100, !.OrderDesc = TRUE])

DeleteCommentTxPostAuthorMayDelete(d, commentID, userID) ==
    LET found == {c \in d.comments : c.id = commentID}
        d1 == [d EXCEPT !.comment_likes = {r \in @ : r.comment_id # commentID}]
        d2 == [d1 EXCEPT !.comments = {c \in @ : c.id # commentID}]
    IN  IF commentID <= 0 \/ userID <= 0 THEN [db |-> d, err |-> ErrInvalidDeleteComment]
        ELSE IF found = {} THEN [db |-> d, err |-> ErrCommentNotFound]
        ELSE IF /\ (CHOOSE c \in found : TRUE).author_id # userID
                /\ \A p \in d.posts :
                       p.id = (CHOOSE c \in found : TRUE).post_id => p.author_id # userID
        THEN [db |-> d, err |-> ErrNotYourComment]
        ELSE [db |-> d2, err |-> Nil]

DeleteCommentTx(d, commentID, userID) ==
    LET found == {c \in d.comments : c.id = commentID}
        d1 == [d EXCEPT !.comment_likes = {r \in @ : r.comment_id # commentID}]
        d2 == [d1 EXCEPT !.comments = {c \in @ : c.id # commentID},
                         !.comment_likes = IF ForeignKeysOn
                                           THEN {r \in @ : r.comment_id # commentID}
                                           ELSE @]
    IN  IF commentID <= 0 \/ userID <= 0 THEN [db |-> d, err |-> ErrInvalidDeleteComment]
        ELSE IF found = {} THEN [db |-> d, err |-> ErrCommentNotFound]
        ELSE IF (CHOOSE c \in found : TRUE).author_id # userID
        THEN [db |-> d, err |-> ErrNotYourComment]
        ELSE [db |-> d2, err |-> Nil]

DeleteComment(commentID, userID) ==
    /\ LET r == DeleteCommentTx(DB, commentID, userID)
       IN  Commit(r.db)
    /\ UNCHANGED <<tokens, ended, now, pc, req, res>>

-----------------------------------------------------------------------------
(* Reactions *)

(* Variants of the upsert with a slip in the conflict clause. *)
UpsertPostLikeToggles(d, userID, postID, reaction) ==
    LET conflict == {r \in d.post_likes : r.user_id = userID /\ r.post_id = postID}
        row == [user_id |-> userID, post_id |-> postID, reaction |-> reaction]
    IN  IF reaction \notin {-1, 1} THEN [db |-> d, err |-> ErrCheck]
        ELSE IF row \in conflict
        THEN [db |-> [d EXCEPT !.post_likes = @ \ conflict], err |-> Nil]
        ELSE IF conflict # {}
        THEN [db |-> [d EXCEPT !.post_likes = (@ \ conflict) \cup {row}], err |-> Nil]
        ELSE IF ForeignKeysOn
                /\ (userID \notin IDs(d.users) \/ postID \notin IDs(d.posts))
        THEN [db |-> d, err |-> ErrForeignKey]
        ELSE [db |-> [d EXCEPT !.post_likes = @ \cup {row}], err |-> Nil]

UpsertPostLikeIgnores(d, userID, postID, reaction) ==
    LET conflict == {r \in d.post_likes : r.user_id = userID /\ r.post_id = postID}
        row == [user_id |-> userID, post_id |-> postID, reaction |-> reaction]
    IN  IF reaction \notin {-1, 1} THEN [db |-> d, err |-> ErrCheck]
        ELSE IF conflict # {} THEN [db |-> d, err |-> Nil]
        ELSE IF ForeignKeysOn
                /\ (userID \notin IDs(d.users) \/ postID \notin IDs(d.posts))
        THEN [db |-> d, err |-> ErrForeignKey]
        ELSE [db |-> [d EXCEPT !.post_likes = @ \cup {row}], err |-> Nil]

UpsertPostLikeNoKey(d, userID, postID, reaction) ==
    LET row == [user_id |-> userID, post_id |-> postID, reaction |-> reaction]
    IN  IF reaction \notin {-1, 1} THEN [db |-> d, err |-> ErrCheck]
        ELSE IF ForeignKeysOn
                /\ (userID \notin IDs(d.users) \/ postID \notin IDs(d.posts))
        THEN [db |-> d, err |-> ErrForeignKey]
        ELSE [db |-> [d EXCEPT !.post_likes = @ \cup {row}], err |-> Nil]

UpsertPostLikePlainInsert(d, userID, postID, reaction) ==
    LET conflict == {r \in d.post_likes : r.user_id = userID /\ r.post_id = postID}
        row == [user_id |-> userID, post_id |-> postID, reaction |-> reaction]
    IN  IF reaction \notin {-1, 1} THEN [db |-> d, err |-> ErrCheck]
        ELSE IF conflict # {} THEN [db |-> d, err |-> ErrUnique]
        ELSE IF ForeignKeysOn
                /\ (userID \notin IDs(d.users) \/ postID \notin IDs(d.posts))
        THEN [db |-> d, err |-> ErrForeignKey]
        ELSE [db |-> [d EXCEPT !.post_likes = @ \cup {row}], err |-> Nil]

UpsertPostLike(d, userID, postID, reaction) ==
    LET conflict == {r \in d.post_likes : r.user_id = userID /\ r.post_id = postID}
        row == [user_id |-> userID, post_id |-> postID, reaction |-> reaction]
    IN  IF reaction \notin {-1, 1} THEN [db |-> d, err |-> ErrCheck]
        ELSE IF conflict # {}
        THEN [db |-> [d EXCEPT !.post_likes = (@ \ conflict) \cup
                         {[r EXCEPT !.reaction = reaction] : r \in conflict}],
              err |-> Nil]
        ELSE IF ForeignKeysOn
                /\ (userID \notin IDs(d.users) \/ postID \notin IDs(d.posts))
        THEN [db |-> d, err |-> ErrForeignKey]
        ELSE [db |-> [d EXCEPT !.post_likes = @ \cup {row}], err |-> Nil]

(* A variant of TogglePostReaction whose DELETE has no post_id condition. *)
TogglePostReactionExecClearsAllOfUser(d, userID, postID, reaction) ==
    IF userID <= 0 \/ postID <= 0 THEN [db |-> d, err |-> ErrInvalidIDs]
    ELSE IF reaction # -1 /\ reaction # 0 /\ reaction # 1
    THEN [db |-> d, err |-> ErrInvalidReaction]
    ELSE IF reaction = 0
    THEN [db |-> [d EXCEPT !.post_likes = {r \in @ : r.user_id # userID}],
          err |-> Nil]
    ELSE UpsertPostLike(d, userID, postID, reaction)

TogglePostReactionExec(d, userID, postID, reaction) ==
    IF userID <= 0 \/ postID <= 0 THEN [db |-> d, err |-> ErrInvalidIDs]
    ELSE IF reaction # -1 /\ reaction # 0 /\ reaction # 1
    THEN [db |-> d, err |-> ErrInvalidReaction]
    ELSE IF reaction = 0
    THEN [db |-> [d EXCEPT !.post_likes =
                     {r \in @ : ~(r.user_id = userID /\ r.post_id = postID)}],
          err |-> Nil]
    ELSE UpsertPostLike(d, userID, postID, reaction)

TogglePostReaction(userID, postID, reaction) ==
    /\ LET r == TogglePostReactionExec(DB, userID, postID, reaction)
       IN  /\ Cardinality(r.db.post_likes) + Cardinality(comment_likes) <= MaxLikes
           /\ Commit(r.db)
    /\ UNCHANGED <<tokens, ended, now, pc, req, res>>

UpsertCommentLike(d, userID, commentID, reaction) ==
    LET conflict == {r \in d.comment_likes :
                        r.user_id = userID /\ r.comment_id = commentID}
        row == [user_id |-> userID, comment_id |-> commentID, reaction |-> reaction]
    IN  IF reaction \notin {-1, 1} THEN [db |-> d, err |-> ErrCheck]
        ELSE IF conflict # {}
        THEN [db |-> [d EXCEPT !.comment_likes = (@ \ conflict) \cup
                         {[r EXCEPT !.reaction = reaction] : r \in conflict}],
              err |-> Nil]
        ELSE IF ForeignKeysOn
                /\ (userID \notin IDs(d.users) \/ commentID \notin IDs(d.comments))
        THEN [db |-> d, err |-> ErrForeignKey]
        ELSE [db |-> [d EXCEPT !.comment_likes = @ \cup {row}], err |-> Nil]

ToggleCommentReactionExec(d, userID, commentID, reaction) ==
    IF userID <= 0 \/ commentID <= 0 THEN [db |-> d, err |-> ErrInvalidIDs]
    ELSE IF reaction # -1 /\ reaction # 0 /\ reaction # 1
    THEN [db |-> d, err |-> ErrInvalidReaction]
    ELSE IF reaction = 0
    THEN [db |-> [d EXCEPT !.comment_likes =
                     {r \in @ : ~(r.user_id = userID /\ r.comment_id = commentID)}],
          err |-> Nil]
    ELSE UpsertCommentLike(d, userID, commentID, reaction)

ToggleCommentReaction(userID, commentID, reaction) ==
    /\ LET r == ToggleCommentReactionExec(DB, userID, commentID, reaction)
       IN  /\ Cardinality(post_likes) + Cardinality(r.db.comment_likes) <= MaxLikes
           /\ Commit(r.db)
    /\ UNCHANGED <<tokens, ended, now, pc, req, res>>

(* SUM(...) over the rows of one target. SQL's SUM of no rows is NULL, and *)
(* Scan cannot store NULL in an int: the call then returns Reactions{} and  *)
(* the scan error.                                                          *)
SumReactionsCountsAll(rows) ==
    IF rows = {}
    THEN [r |-> [Likes |-> 0, Dislikes |-> 0], err |-> ErrScanNull]
    ELSE [r |-> [Likes |-> Cardinality(rows),
                 Dislikes |-> Cardinality({x \in rows : x.reaction = -1})],
          err |-> Nil]

SumReactions(rows) ==
    IF rows = {}
    THEN [r |-> [Likes |-> 0, Dislikes |-> 0], err |-> ErrScanNull]
    ELSE [r |-> [Likes |-> Cardinality({x \in rows : x.reaction = 1}),
                 Dislikes |-> Cardinality({x \in rows : x.reaction = -1})],
          err |-> Nil]

CountPostReactions(postID) ==
    SumReactions({x \in post_likes : x.post_id = postID})

CountCommentReactions(commentID) ==
    SumReactions({x \in comment_likes : x.comment_id = commentID})

-----------------------------------------------------------------------------
(* Detail views: a post or a comment with its author's name, its reaction    *)
(* counts and the viewer's own reaction. Each field comes from a query of its  *)
(* own; a query that fails leaves the field at its zero value.                 *)

Unknown == <<"Unknown">>

QueryUsername(d, id) ==
    IF \E u \in d.users : u.id = id
    THEN (CHOOSE u \in d.users : u.id = id).username
    ELSE Unknown

QueryCountPostReactions(d, postID) ==
    SumReactions({x \in d.post_likes : x.post_id = postID}).r

QueryCountCommentReactions(d, commentID) ==
    SumReactions({x \in d.comment_likes : x.comment_id = commentID}).r

QueryCountComments(d, postID) == Cardinality({c \in d.comments : c.post_id = postID})

(* A variant of the viewer's reaction query without its user_id condition. *)
QueryPostReactionOfAnyUser(d, currentUserID, postID) ==
    {x.reaction : x \in {x \in d.post_likes : x.post_id = postID}}

(* SELECT reaction FROM post_likes WHERE user_id = ? AND post_id = ?, asked  *)
(* only for a logged-in viewer.                                               *)
QueryPostReaction(d, currentUserID, postID) ==
    IF currentUserID > 0
    THEN {x.reaction : x \in {x \in d.post_likes :
                                 x.user_id = currentUserID /\ x.post_id = postID}}
    ELSE {}

QueryCommentReaction(d, currentUserID, commentID) ==
    IF currentUserID > 0
    THEN {x.reaction : x \in {x \in d.comment_likes :
                                 x.user_id = currentUserID /\ x.comment_id = commentID}}
    ELSE {}

(* The loop body of ListPostsWithDetails and the body of GetPostWithDetails,  *)
(* for a post as ListPosts or GetPostByID returned it.                         *)
PostWithDetails(d, post, names, currentUserID) ==
    [Post |-> post, Categories |-> names,
     Username |-> QueryUsername(d, post.author_id),
     LikesCount |-> QueryCountPostReactions(d, post.id).Likes,
     DislikesCount |-> QueryCountPostReactions(d, post.id).Dislikes,
     CommentsCount |-> QueryCountComments(d, post.id),
     UserLiked |-> 1 \in QueryPostReaction(d, currentUserID, post.id),
     UserDisliked |-> 1 \notin QueryPostReaction(d, currentUserID, post.id)
                        /\ -1 \in QueryPostReaction(d, currentUserID, post.id)]

CommentWithDetails(d, comment, currentUserID) ==
    [Comment |-> comment,
     Username |-> QueryUsername(d, comment.author_id),
     LikesCount |-> QueryCountCommentReactions(d, comment.id).Likes,
     DislikesCount |-> QueryCountCommentReactions(d, comment.id).Dislikes,
     UserLiked |-> 1 \in QueryCommentReaction(d, currentUserID, comment.id),
     UserDisliked |-> 1 \notin QueryCommentReaction(d, currentUserID, comment.id)
                        /\ -1 \in QueryCommentReaction(d, currentUserID, comment.id)]

(* GetPostWithDetails on a store no other request writes to. *)
GetPostWithDetailsExec(d, postID, currentUserID) ==
    LET g == QueryPostByID(d, postID)
    IN  IF ~g.ok THEN [err |-> g.err]
        ELSE [err |-> Nil, detail |-> PostWithDetails(d, g.post, g.Categories, currentUserID)]

(* The details ListPostsWithDetails and ListCommentsWithDetails add to a list. *)
ListPostsWithDetails(d, opt, currentUserID) ==
    {[i \in 1 .. Len(l) |-> PostWithDetails(d, l[i].post, l[i].Categories, currentUserID)] :
        l \in QueryListPosts(d, opt)}

ListCommentsWithDetailsFor(postID, currentUserID) ==
    {[i \in 1 .. Len(l) |-> CommentWithDetails(DB, l[i], currentUserID)] :
        l \in ListCommentsWithDetails(postID)}

(* GetPostWithDetails as a request worker runs it: six queries, one after the *)
(* other on the connection pool, outside any transaction, so that writes of    *)
(* other requests commit between them. The worker fills the detail in as it    *)
(* goes.                                                                        *)
ViewerInputs == {0, 1, 2}

NoDetail(post) ==
    [Post |-> post, Categories |-> {}, Username |-> <<>>, LikesCount |-> 0,
     DislikesCount |-> 0, CommentsCount |-> 0, UserLiked |-> FALSE, UserDisliked |-> FALSE]

GetPostWithDetailsPost(w, postID, currentUserID) ==
    /\ pc[w] \in {"idle", "done"}
    /\ LET r == QueryPostByID(DB, postID)
       IN  IF r.ok
           THEN /\ pc' = [pc EXCEPT ![w] = "gd_categories"]
                /\ req' = [req EXCEPT ![w] = [op |-> "post_detail", target |-> postID,
                                              userID |-> currentUserID,
                                              detail |-> NoDetail(r.post)]]
                /\ res' = [res EXCEPT ![w] = [err |-> Nil, raced |-> FALSE]]
           ELSE /\ pc' = [pc EXCEPT ![w] = "done"]
                /\ req' = [req EXCEPT ![w] = [op |-> "post_detail", target |-> postID,
                                              userID |-> currentUserID]]
                /\ res' = [res EXCEPT ![w] = [err |-> r.err, raced |-> FALSE]]
    /\ UNCHANGED <<tables, tokens, ended, now>>

GetPostWithDetailsCategories(w) ==
    /\ pc[w] = "gd_categories"
    /\ pc' = [pc EXCEPT ![w] = "gd_username"]
    /\ req' = [req EXCEPT ![w].detail.Categories = listCategoriesForPost(req[w].target)]
    /\ UNCHANGED <<tables, tokens, ended, now, res>>

GetPostWithDetailsUsername(w) ==
    /\ pc[w] = "gd_username"
    /\ pc' = [pc EXCEPT ![w] = "gd_reactions"]
    /\ req' = [req EXCEPT ![w].detail.Username =
                  QueryUsername(DB, req[w].detail.Post.author_id)]
    /\ UNCHANGED <<tables, tokens, ended, now, res>>

GetPostWithDetailsReactions(w) ==
    /\ pc[w] = "gd_reactions"
    /\ pc' = [pc EXCEPT ![w] = "gd_comments"]
    /\ req' = [req EXCEPT
                  ![w].detail.LikesCount = QueryCountPostReactions(DB, req[w].target).Likes,
                  ![w].detail.DislikesCount =
                      QueryCountPostReactions(DB, req[w].target).Dislikes]
    /\ UNCHANGED <<tables, tokens, ended, now, res>>

GetPostWithDetailsComments(w) ==
    /\ pc[w] = "gd_comments"
    /\ pc' = [pc EXCEPT ![w] = "gd_viewer"]
    /\ req' = [req EXCEPT ![w].detail.CommentsCount = QueryCountComments(DB, req[w].target)]
    /\ UNCHANGED <<tables, tokens, ended, now, res>>

GetPostWithDetailsViewer(w) ==
    /\ pc[w] = "gd_viewer"
    /\ pc' = [pc EXCEPT ![w] = "done"]
    /\ LET mine == QueryPostReaction(DB, req[w].userID, req[w].target)
       IN  res' = [res EXCEPT ![w] =
                      [err |-> Nil, raced |-> FALSE,
                       detail |-> [req[w].detail EXCEPT
                                      !.UserLiked = 1 \in mine,
                                      !.UserDisliked = 1 \notin mine /\ -1 \in mine]]]
    /\ UNCHANGED <<tables, tokens, ended, now, req>>

-----------------------------------------------------------------------------
(* The like handlers, one request worker each. RequireAuth has resolved the  *)
(* user; the handler reads the form and then runs its one statement, so two   *)
(* requests are in flight together between their first and second step.       *)

ActionInputs == {"like", "dislike", "clear"}

ReactionOfAction(action) ==
    IF action = "like" THEN 1 ELSE IF action = "dislike" THEN -1 ELSE 0

InFlightOn(w, op, userID, target) ==
    /\ pc[w] = op
    /\ req[w].userID = userID
    /\ req[w].target = target

LikePostHandlerBegin(w, userID, postID, action) ==
    /\ pc[w] \in {"idle", "done"}
    /\ pc' = [pc EXCEPT ![w] = "like_post"]
    /\ req' = [req EXCEPT ![w] = [op |-> "like_post", userID |-> userID,
                                  target |-> postID,
                                  reaction |-> ReactionOfAction(action)]]
    /\ res' = [res EXCEPT ![w] = [err |-> Nil, raced |-> FALSE]]
    /\ UNCHANGED <<tables, tokens, ended, now>>

LikePostHandlerExec(w) ==
    /\ pc[w] = "like_post"
    /\ LET r == TogglePostReactionExec(DB, req[w].userID, req[w].target, req[w].reaction)
       IN  /\ Cardinality(r.db.post_likes) + Cardinality(comment_likes) <= MaxLikes
           /\ Commit(r.db)
           /\ res' = [res EXCEPT ![w] =
                  [err |-> r.err,
                   raced |-> \E o \in Workers \ {w} :
                       InFlightOn(o, "like_post", req[w].userID, req[w].target)]]
    /\ pc' = [pc EXCEPT ![w] = "done"]
    /\ UNCHANGED <<tokens, ended, now, req>>

LikeCommentHandlerBegin(w, userID, commentID, action) ==
    /\ pc[w] \in {"idle", "done"}
    /\ pc' = [pc EXCEPT ![w] = "like_comment"]
    /\ req' = [req EXCEPT ![w] = [op |-> "like_comment", userID |-> userID,
                                  target |-> commentID,
                                  reaction |-> ReactionOfAction(action)]]
    /\ res' = [res EXCEPT ![w] = [err |-> Nil, raced |-> FALSE]]
    /\ UNCHANGED <<tables, tokens, ended, now>>

LikeCommentHandlerExec(w) ==
    /\ pc[w] = "like_comment"
    /\ LET r == ToggleCommentReactionExec(DB, req[w].userID, req[w].target, req[w].reaction)
       IN  /\ Cardinality(post_likes) + Cardinality(r.db.comment_likes) <= MaxLikes
           /\ Commit(r.db)
           /\ res' = [res EXCEPT ![w] =
                  [err |-> r.err,
                   raced |-> \E o \in Workers \ {w} :
                       InFlightOn(o, "like_comment", req[w].userID, req[w].target)]]
    /\ pc' = [pc EXCEPT ![w] = "done"]
    /\ UNCHANGED <<tokens, ended, now, req>>

-----------------------------------------------------------------------------
(* Sessions *)

SessionLifetime == 24

(* uuid.New(): a token no earlier call has generated. *)
NewToken == Len(tokens) + 1

CreateSessionInFlight(w, userID) == pc[w] = "cs_insert" /\ req[w].userID = userID

ExecDeleteSessionsOfUserKeepsRows(d, userID) == d

ExecDeleteSessionsOfUser(d, userID) ==
    [d EXCEPT !.sessions = {r \in @ : r.user_id # userID}]

ExecInsertSession(d, token, userID, expiresAt) ==
    IF \E r \in d.sessions : r.token = token THEN [db |-> d, err |-> ErrUnique]
    ELSE IF ForeignKeysOn /\ userID \notin IDs(d.users)
    THEN [db |-> d, err |-> ErrForeignKey]
    ELSE [db |-> [d EXCEPT !.sessions = @ \cup
                     {[token |-> token, user_id |-> userID, expires_at |-> expiresAt]}],
          err |-> Nil]

(* CreateSession, up to and including its DELETE: the token and the expiry   *)
(* are computed first. raced records that another CreateSession of the same   *)
(* user was running during this call.                                         *)
CreateSessionDelete(w, userID) ==
    /\ pc[w] \in {"idle", "done"}
    /\ Len(tokens) < MaxTokens
    /\ tokens' = Append(tokens, userID)
    /\ Commit(ExecDeleteSessionsOfUser(DB, userID))
    /\ ended' = ended \cup {[token |-> r.token, how |-> "replaced"] :
                               r \in {r \in sessions : r.user_id = userID}}
    /\ pc' = [pc EXCEPT ![w] = "cs_insert"]
    /\ req' = [req EXCEPT ![w] = [op |-> "create_session", userID |-> userID,
                                  target |-> NewToken, startedAt |-> now,
                                  expiresAt |-> now + SessionLifetime]]
    /\ res' = [o \in Workers |->
                  IF o = w
                  THEN [err |-> Nil,
                        raced |-> \E x \in Workers \ {w} : CreateSessionInFlight(x, userID)]
                  ELSE IF CreateSessionInFlight(o, userID)
                  THEN [res[o] EXCEPT !.raced = TRUE]
                  ELSE res[o]]
    /\ UNCHANGED now

(* CreateSession's INSERT and return. *)
CreateSessionInsert(w) ==
    /\ pc[w] = "cs_insert"
    /\ LET r == ExecInsertSession(DB, req[w].target, req[w].userID, req[w].expiresAt)
       IN  /\ Commit(r.db)
           /\ res' = [res EXCEPT ![w].err = r.err]
    /\ pc' = [pc EXCEPT ![w] = "done"]
    /\ UNCHANGED <<tokens, ended, now, req>>

(* CreateSession where statement fault fails: 1 is the DELETE, 2 the INSERT,  *)
(* 0 none. The two statements run on the pool, not in a transaction: what the  *)
(* DELETE removed stays removed when the INSERT fails.                         *)
SessionFaultInputs == 0 .. 2

CreateSessionExecWithFault(d, userID, token, t, fault) ==
    LET d1 == ExecDeleteSessionsOfUser(d, userID)
        r == ExecInsertSession(d1, token, userID, t + SessionLifetime)
    IN  IF fault = 1 THEN [db |-> d, token |-> 0, err |-> ErrStorage]
        ELSE IF fault = 2 THEN [db |-> d1, token |-> 0, err |-> ErrStorage]
        ELSE IF r.err # Nil THEN [db |-> d1, token |-> 0, err |-> r.err]
        ELSE [db |-> r.db, token |-> token, err |-> Nil]

(* Variants of ValidateSession: one leaves the expired row in place, one     *)
(* takes the instant of expiry as already expired.                            *)
ValidateSessionExecKeepsRow(d, token, t) ==
    LET found == {r \in d.sessions : r.token = token}
        row == CHOOSE r \in found : TRUE
    IN  IF found = {} THEN [db |-> d, userID |-> 0, err |-> ErrInvalidSession]
        ELSE IF t > row.expires_at
        THEN [db |-> d, userID |-> 0, err |-> ErrSessionExpired]
        ELSE [db |-> d, userID |-> row.user_id, err |-> Nil]

ValidateSessionExecExpiresAtInstant(d, token, t) ==
    LET found == {r \in d.sessions : r.token = token}
        row == CHOOSE r \in found : TRUE
    IN  IF found = {} THEN [db |-> d, userID |-> 0, err |-> ErrInvalidSession]
        ELSE IF t >= row.expires_at
        THEN [db |-> [d EXCEPT !.sessions = {r \in @ : r.token # token}],
              userID |-> 0, err |-> ErrSessionExpired]
        ELSE [db |-> d, userID |-> row.user_id, err |-> Nil]

(* ValidateSession: the row is read and, when it has expired, deleted; the   *)
(* delete is by token, so nothing another request does between the two        *)
(* statements changes what it removes.                                        *)
ValidateSessionExec(d, token, t) ==
    LET found == {r \in d.sessions : r.token = token}
        row == CHOOSE r \in found : TRUE
    IN  IF found = {} THEN [db |-> d, userID |-> 0, err |-> ErrInvalidSession]
        ELSE IF t > row.expires_at
        THEN [db |-> [d EXCEPT !.sessions = {r \in @ : r.token # token}],
              userID |-> 0, err |-> ErrSessionExpired]
        ELSE [db |-> d, userID |-> row.user_id, err |-> Nil]

ValidateSession(token) ==
    /\ LET r == ValidateSessionExec(DB, token, now)
       IN  /\ Commit(r.db)
           /\ ended' = IF r.err = ErrSessionExpired
                       THEN ended \cup {[token |-> token, how |-> "expired"]}
                       ELSE ended
    /\ UNCHANGED <<tokens, now, pc, req, res>>

(* A variant of DeleteSession whose DELETE matches no row. *)
DeleteSessionExecKeepsRow(d, token) == [db |-> d, err |-> Nil]

(* A variant of DeleteSession whose DELETE has no WHERE clause. *)
DeleteSessionExecAllRows(d, token) ==
    [db |-> [d EXCEPT !.sessions = {}], err |-> Nil]

(* DeleteSession: DELETE FROM sessions WHERE token = ?, which succeeds       *)
(* whether or not a row matched.                                              *)
DeleteSessionExec(d, token) ==
    [db |-> [d EXCEPT !.sessions = {r \in @ : r.token # token}], err |-> Nil]

DeleteSession(token) ==
    /\ LET r == DeleteSessionExec(DB, token)
       IN  /\ Commit(r.db)
           /\ ended' = IF \E x \in sessions : x.token = token
                       THEN ended \cup {[token |-> token, how |-> "revoked"]}
                       ELSE ended
    /\ UNCHANGED <<tokens, now, pc, req, res>>

(* The clock advances by hours; a call lasts far less than an hour, so none  *)
(* is between two of its statements when it does.                             *)
Tick ==
    /\ now + TickHours <= MaxTime
    /\ \A w \in Workers : pc[w] # "cs_insert"
    /\ now' = now + TickHours
    /\ UNCHANGED <<tables, tokens, ended, pc, req, res>>

(* CleanExpiredSessions: DELETE FROM sessions WHERE expires_at <               *)
(* CURRENT_TIMESTAMP. CreateSession binds time.Now().Add(24h), a local time,    *)
(* and the driver stores it as the text of its wall-clock reading in the        *)
(* server's zone; CURRENT_TIMESTAMP is the text of the reading in UTC. SQLite   *)
(* compares the two texts, which order as the readings do. ValidateSession      *)
(* scans the column back into the instant it stands for. zone is the offset     *)
(* of the server's local time from UTC, in hours.                               *)
ZoneInputs == {-8, 0, 3}

FormatLocal(t, zone) == t + zone

CurrentTimestamp(t) == t

CleanExpiredSessionsExec(d, t, zone) ==
    [db |-> [d EXCEPT !.sessions =
                {r \in @ : ~(FormatLocal(r.expires_at, zone) < CurrentTimestamp(t))}],
     err |-> Nil]

CleanExpiredSessions(zone) ==
    /\ LET r == CleanExpiredSessionsExec(DB, now, zone)
       IN  /\ Commit(r.db)
           /\ ended' = ended \cup {[token |-> x.token, how |-> "cleaned"] :
                                      x \in sessions \ r.db.sessions}
    /\ UNCHANGED <<tokens, now, pc, req, res>>

(* The clock advances by h hours. *)
ElapseInputs == {6}

Elapse(h) ==
    /\ now + h <= MaxTime
    /\ \A w \in Workers : pc[w] # "cs_insert"
    /\ now' = now + h
    /\ UNCHANGED <<tables, tokens, ended, pc, req, res>>

-----------------------------------------------------------------------------
(* Transactions whose statements can fail *)

(* The statement that fails, by its number in the call; 0 is none. *)
FaultInputs == 0 .. 8

(* defer tx.Rollback(): a call that returns before its Commit has succeeded   *)
(* leaves the store as it was at BeginTx.                                     *)
RollbackKeepsWork(before, work) == work

Rollback(before, work) == before

(* CreatePost where statement fault fails: 1 is BeginTx, 2 the INSERT of the  *)
(* post, 3 the Commit, and 3 + k the INSERT of the junction row of the k-th    *)
(* name listed, after that name's category has been found or created. work is  *)
(* what the transaction had written when the call returned.                    *)
CreatePostTxWithFault(d, authorID, title, content, categoryNames, fault) ==
    LET t == TrimSpace(title)
        c == TrimSpace(content)
        postID == d.seq.posts + 1
        d1 == [d EXCEPT !.posts = @ \cup {[id |-> postID, author_id |-> authorID,
                                           title |-> t, content |-> c,
                                           created_at |-> now]},
                        !.seq.posts = postID]
        k == fault - 3
        atName == k \in 1 .. Len(categoryNames) /\ TrimSpace(categoryNames[k]) # <<>>
        name == TrimSpace(categoryNames[k])
        sofar == associateCategoriesTx(d1, postID, SubSeq(categoryNames, 1, k - 1))
        partial == IF \E x \in sofar.categories : x.name = name THEN sofar
                   ELSE [sofar EXCEPT !.categories =
                            @ \cup {[id |-> sofar.seq.categories + 1, name |-> name]},
                                      !.seq.categories = @ + 1]
        full == associateCategoriesTx(d1, postID, categoryNames)
    IN  IF authorID <= 0 \/ t = <<>> \/ c = <<>>
        THEN [db |-> d, id |-> 0, err |-> ErrInvalidPost, work |-> d]
        ELSE IF fault = 1 THEN [db |-> d, id |-> 0, err |-> ErrStorage, work |-> d]
        ELSE IF fault = 2
        THEN [db |-> Rollback(d, d), id |-> 0, err |-> ErrStorage, work |-> d]
        ELSE IF ForeignKeysOn /\ authorID \notin IDs(d.users)
        THEN [db |-> Rollback(d, d), id |-> 0, err |-> ErrForeignKey, work |-> d]
        ELSE IF atName
        THEN [db |-> Rollback(d, partial), id |-> 0, err |-> ErrStorage, work |-> partial]
        ELSE IF fault = 3
        THEN [db |-> Rollback(d, full), id |-> 0, err |-> ErrStorage, work |-> full]
        ELSE [db |-> full, id |-> postID, err |-> Nil, work |-> full]

(* DeletePost where statement fault fails: 1 is BeginTx, 2 the SELECT of the  *)
(* author, 3 to 7 the five DELETEs in their order, 8 the Commit.               *)
DeletePostTxWithFault(d, postID, userID, fault) ==
    LET found == {p \in d.posts : p.id = postID}
        ofPost == {c.id : c \in {c \in d.comments : c.post_id = postID}}
        d1 == [d EXCEPT !.post_likes = {r \in @ : r.post_id # postID}]
        d2 == [d1 EXCEPT !.comment_likes = {r \in @ : r.comment_id \notin ofPost}]
        d3 == ExecDeleteCommentsOfPost(d2, postID)
        d4 == [d3 EXCEPT !.post_categories = {r \in @ : r.post_id # postID}]
        d5 == ExecDeletePostRow(d4, postID)
        work == IF fault = 4 THEN d1 ELSE IF fault = 5 THEN d2 ELSE IF fault = 6 THEN d3
                ELSE IF fault = 7 THEN d4 ELSE IF fault = 8 THEN d5 ELSE d
    IN  IF postID <= 0 \/ userID <= 0
        THEN [db |-> d, err |-> ErrInvalidDelete, work |-> d]
        ELSE IF fault = 1 THEN [db |-> d, err |-> ErrStorage, work |-> d]
        ELSE IF fault = 2 THEN [db |-> Rollback(d, d), err |-> ErrStorage, work |-> d]
        ELSE IF found = {} THEN [db |-> Rollback(d, d), err |-> ErrPostNotFound, work |-> d]
        ELSE IF (CHOOSE p \in found : TRUE).author_id # userID
        THEN [db |-> Rollback(d, d), err |-> ErrNotYourPost, work |-> d]
        ELSE IF fault \in 3 .. 8
        THEN [db |-> Rollback(d, work), err |-> ErrStorage, work |-> work]
        ELSE [db |-> d5, err |-> Nil, work |-> d5]

(* DeleteComment where statement fault fails: 1 is BeginTx, 2 the SELECT of   *)
(* the author, 3 and 4 the two DELETEs, 5 the Commit.                          *)
DeleteCommentTxWithFault(d, commentID, userID, fault) ==
    LET found == {c \in d.comments : c.id = commentID}
        d1 == [d EXCEPT !.comment_likes = {r \in @ : r.comment_id # commentID}]
        d2 == [d1 EXCEPT !.comments = {c \in @ : c.id # commentID},
                         !.comment_likes = IF ForeignKeysOn
                                           THEN {r \in @ : r.comment_id # commentID}
                                           ELSE @]
        work == IF fault = 4 THEN d1 ELSE IF fault = 5 THEN d2 ELSE d
    IN  IF commentID <= 0 \/ userID <= 0
        THEN [db |-> d, err |-> ErrInvalidDeleteComment, work |-> d]
        ELSE IF fault = 1 THEN [db |-> d, err |-> ErrStorage, work |-> d]
        ELSE IF fault = 2 THEN [db |-> Rollback(d, d), err |-> ErrStorage, work |-> d]
        ELSE IF found = {}
        THEN [db |-> Rollback(d, d), err |-> ErrCommentNotFound, work |-> d]
        ELSE IF (CHOOSE c \in found : TRUE).author_id # userID
        THEN [db |-> Rollback(d, d), err |-> ErrNotYourComment, work |-> d]
        ELSE IF fault \in 3 .. 5
        THEN [db |-> Rollback(d, work), err |-> ErrStorage, work |-> work]
        ELSE [db |-> d2, err |-> Nil, work |-> d2]

-----------------------------------------------------------------------------
(* Accounts *)

MinPasswordLen == 6

(* mail.ParseAddress on the addresses tried here: a local part, "@" and a    *)
(* domain, none of them white space.                                          *)
ParseAddressOK(email) ==
    /\ Len(email) = 3
    /\ email[2] = "@"
    /\ email[1] \notin {"@", " "}
    /\ email[3] \notin {"@", " "}

Contains(s, x) == \E i \in DOMAIN s : s[i] = x

(* A variant of the INSERT that binds the email and the username in the      *)
(* order of the other column list.                                            *)
ExecInsertUserSwapsColumns(d, username, email, hash) ==
    IF \E u \in d.users : u.email = email \/ u.username = username
    THEN [db |-> d, err |-> ErrCreateUser]
    ELSE [db |-> [d EXCEPT !.users = @ \cup
                     {[id |-> d.seq.users + 1, email |-> username, username |-> email,
                       password_hash |-> hash]},
                  !.seq.users = @ + 1],
          err |-> Nil]

(* INSERT INTO users: email and username are UNIQUE. *)
ExecInsertUser(d, username, email, hash) ==
    IF \E u \in d.users : u.email = email \/ u.username = username
    THEN [db |-> d, err |-> ErrCreateUser]
    ELSE [db |-> [d EXCEPT !.users = @ \cup
                     {[id |-> d.seq.users + 1, email |-> email, username |-> username,
                       password_hash |-> hash]},
                  !.seq.users = @ + 1],
          err |-> Nil]

(* A variant of RegisterUser that leaves the username to the INSERT. *)
RegisterUserExecNoUsernameCheck(d, email, username, password) ==
    IF ~ParseAddressOK(email) THEN [db |-> d, err |-> ErrInvalidEmail]
    ELSE IF TrimSpace(username) = <<>> THEN [db |-> d, err |-> ErrUsernameEmpty]
    ELSE IF Contains(username, " ") THEN [db |-> d, err |-> ErrUsernameSpaces]
    ELSE IF Len(password) < MinPasswordLen THEN [db |-> d, err |-> ErrPasswordShort]
    ELSE IF \E u \in d.users : u.email = email THEN [db |-> d, err |-> ErrEmailTaken]
    ELSE ExecInsertUser(d, username, email, GenerateFromPassword(password))

RegisterUserExec(d, email, username, password) ==
    IF ~ParseAddressOK(email) THEN [db |-> d, err |-> ErrInvalidEmail]
    ELSE IF TrimSpace(username) = <<>> THEN [db |-> d, err |-> ErrUsernameEmpty]
    ELSE IF Contains(username, " ") THEN [db |-> d, err |-> ErrUsernameSpaces]
    ELSE IF Len(password) < MinPasswordLen THEN [db |-> d, err |-> ErrPasswordShort]
    ELSE IF \E u \in d.users : u.email = email THEN [db |-> d, err |-> ErrEmailTaken]
    ELSE IF \E u \in d.users : u.username = username
    THEN [db |-> d, err |-> ErrUsernameTaken]
    ELSE ExecInsertUser(d, username, email, GenerateFromPassword(password))

RegisterUser(email, username, password) ==
    /\ seq.users < MaxUsers
    /\ Commit(RegisterUserExec(DB, email, username, password).db)
    /\ UNCHANGED <<tokens, ended, now, pc, req, res>>

(* RegisterUser as a request worker runs it: the validation, the two SELECT   *)
(* EXISTS and the INSERT are separate statements on the connection pool,        *)
(* outside any transaction. emailFree and usernameFree record what the store    *)
(* held when the call began, and raced that another RegisterUser was running    *)
(* during this call.                                                            *)
RegisterUserInFlight(w) == pc[w] \in {"ru_email", "ru_username", "ru_insert"}

RegisterUserValidate(w, email, username, password) ==
    LET err == IF ~ParseAddressOK(email) THEN ErrInvalidEmail
               ELSE IF TrimSpace(username) = <<>> THEN ErrUsernameEmpty
               ELSE IF Contains(username, " ") THEN ErrUsernameSpaces
               ELSE IF Len(password) < MinPasswordLen THEN ErrPasswordShort
               ELSE Nil
        others == \E o \in Workers \ {w} : RegisterUserInFlight(o)
    IN  /\ pc[w] \in {"idle", "done"}
        /\ pc' = [pc EXCEPT ![w] = IF err = Nil THEN "ru_email" ELSE "done"]
        /\ req' = [req EXCEPT ![w] =
               [op |-> "register", email |-> email, username |-> username,
                password |-> password,
                emailFree |-> \A x \in users : x.email # email,
                usernameFree |-> \A x \in users : x.username # username]]
        /\ res' = [o \in Workers |->
                      IF o = w THEN [err |-> err, raced |-> err = Nil /\ others]
                      ELSE IF err = Nil /\ RegisterUserInFlight(o)
                      THEN [res[o] EXCEPT !.raced = TRUE]
                      ELSE res[o]]
        /\ UNCHANGED <<tables, tokens, ended, now>>

RegisterUserEmailExists(w) ==
    /\ pc[w] = "ru_email"
    /\ IF \E x \in users : x.email = req[w].email
       THEN /\ pc' = [pc EXCEPT ![w] = "done"]
            /\ res' = [res EXCEPT ![w].err = ErrEmailTaken]
       ELSE /\ pc' = [pc EXCEPT ![w] = "ru_username"]
            /\ UNCHANGED res
    /\ UNCHANGED <<tables, tokens, ended, now, req>>

RegisterUserUsernameExists(w) ==
    /\ pc[w] = "ru_username"
    /\ IF \E x \in users : x.username = req[w].username
       THEN /\ pc' = [pc EXCEPT ![w] = "done"]
            /\ res' = [res EXCEPT ![w].err = ErrUsernameTaken]
       ELSE /\ pc' = [pc EXCEPT ![w] = "ru_insert"]
            /\ UNCHANGED res
    /\ UNCHANGED <<tables, tokens, ended, now, req>>

RegisterUserInsert(w) ==
    /\ pc[w] = "ru_insert"
    /\ LET r == ExecInsertUser(DB, req[w].username, req[w].email,
                               GenerateFromPassword(req[w].password))
       IN  /\ r.db.seq.users <= MaxUsers + 1
           /\ Commit(r.db)
           /\ res' = [res EXCEPT ![w].err = r.err]
    /\ pc' = [pc EXCEPT ![w] = "done"]
    /\ UNCHANGED <<tokens, ended, now, req>>

(* A variant of AuthenticateUser that says when the email is unknown. *)
AuthenticateUserTellsUnknownEmail(d, email, password) ==
    LET found == {u \in d.users : u.email = email}
        row == CHOOSE u \in found : TRUE
    IN  IF found = {} THEN [userID |-> 0, err |-> "user not found"]
        ELSE IF ~CompareHashAndPassword(row.password_hash, password)
        THEN [userID |-> 0, err |-> ErrInvalidCredentials]
        ELSE [userID |-> row.id, err |-> Nil]

AuthenticateUser(d, email, password) ==
    LET found == {u \in d.users : u.email = email}
        row == CHOOSE u \in found : TRUE
    IN  IF found = {} THEN [userID |-> 0, err |-> ErrInvalidCredentials]
        ELSE IF ~CompareHashAndPassword(row.password_hash, password)
        THEN [userID |-> 0, err |-> ErrInvalidCredentials]
        ELSE [userID |-> row.id, err |-> Nil]

(* What LoginHandler answers to a POST that fails: the login page with the   *)
(* error text and the email as typed.                                         *)
LoginFailurePage(d, email, password) ==
    IF TrimSpace(email) = <<>> THEN [Error |-> "Email is required", Email |-> email]
    ELSE IF TrimSpace(password) = <<>>
    THEN [Error |-> "Password is required", Email |-> email]
    ELSE [Error |-> AuthenticateUser(d, email, password).err, Email |-> email]

(* LoginHandler, POST: a failed login renders the login page; a successful   *)
(* one goes on into CreateSession.                                            *)
LoginHandler(w, email, password) ==
    LET r == AuthenticateUser(DB, email, password)
        page == LoginFailurePage(DB, email, password)
    IN  IF page.Error # Nil
        THEN /\ pc[w] \in {"idle", "done"}
             /\ pc' = [pc EXCEPT ![w] = "done"]
             /\ req' = [req EXCEPT ![w] = [op |-> "login", email |-> email]]
             /\ res' = [res EXCEPT ![w] = [err |-> page.Error, raced |-> FALSE]]
             /\ UNCHANGED <<tables, tokens, ended, now>>
        ELSE CreateSessionDelete(w, r.userID)

-----------------------------------------------------------------------------
(* The protected routes: RequireAuth in front of the handlers that write.    *)
(* A request is a POST with a well-formed form; a response is its status,     *)
(* the Location it redirects to, and the text of an error body.                *)

NoCookie == -1
StatusOK == 200
StatusSeeOther == 303
StatusForbidden == 403
StatusInternalServerError == 500

Redirect(location) == [status |-> StatusSeeOther, location |-> location, body |-> ""]
HttpError(body, status) == [status |-> status, location |-> "", body |-> body]
Page(body) == [status |-> StatusOK, location |-> "", body |-> body]

(* A variant of GetCurrentUserID that takes the user of the session row      *)
(* without looking at its expiry.                                              *)
GetCurrentUserIDIgnoresExpiry(d, cookie, t) ==
    IF \E r \in d.sessions : r.token = cookie
    THEN [db |-> d, userID |-> (CHOOSE r \in d.sessions : r.token = cookie).user_id,
          ok |-> TRUE]
    ELSE [db |-> d, userID |-> 0, ok |-> FALSE]

GetCurrentUserID(d, cookie, t) ==
    IF cookie = NoCookie THEN [db |-> d, userID |-> 0, ok |-> FALSE]
    ELSE LET r == ValidateSessionExec(d, cookie, t)
         IN  [db |-> r.db, userID |-> r.userID, ok |-> r.err = Nil]

CreatePostPageHandler(d, userID, request) ==
    LET title == TrimSpace(request.title)
        content == TrimSpace(request.content)
        r == CreatePostTx(d, userID, title, content, request.categories)
    IN  IF userID \notin IDs(d.users)
        THEN [db |-> d, resp |-> HttpError("User not found", StatusInternalServerError)]
        ELSE IF title = <<>> THEN [db |-> d, resp |-> Page("Post title is required")]
        ELSE IF content = <<>> THEN [db |-> d, resp |-> Page("Post content is required")]
        ELSE IF r.err # Nil THEN [db |-> d, resp |-> Page(r.err)]
        ELSE [db |-> r.db, resp |-> Redirect("/post/")]

AddCommentHandler(d, userID, request) ==
    LET r == CreateCommentExec(d, request.post_id, userID, TrimSpace(request.content))
    IN  IF TrimSpace(request.content) = <<>>
        THEN [db |-> d, resp |-> Redirect("/post/?comment_error")]
        ELSE IF r.err # Nil
        THEN [db |-> d, resp |-> HttpError("Failed to add comment", StatusInternalServerError)]
        ELSE [db |-> r.db, resp |-> Redirect("/post/#comment")]

(* The body of a refused delete is "Failed to delete post: " and the error.  *)
DeletePostHandler(d, userID, request) ==
    LET r == DeletePostTx(d, request.post_id, userID)
    IN  IF r.err # Nil THEN [db |-> d, resp |-> HttpError(r.err, StatusForbidden)]
        ELSE [db |-> r.db, resp |-> Redirect("/?deleted=true")]

DeleteCommentHandler(d, userID, request) ==
    LET r == DeleteCommentTx(d, request.comment_id, userID)
    IN  IF r.err # Nil THEN [db |-> d, resp |-> HttpError(r.err, StatusForbidden)]
        ELSE [db |-> r.db, resp |-> Redirect("/post/?comment_deleted=true")]

LikePostHandler(d, userID, request) ==
    LET r == TogglePostReactionExec(d, userID, request.post_id,
                                    ReactionOfAction(request.action))
    IN  IF r.err # Nil
        THEN [db |-> d, resp |-> HttpError("Failed to update reaction",
                                           StatusInternalServerError)]
        ELSE [db |-> r.db, resp |-> Redirect("/post/")]

LikeCommentHandler(d, userID, request) ==
    LET r == ToggleCommentReactionExec(d, userID, request.comment_id,
                                       ReactionOfAction(request.action))
    IN  IF r.err # Nil
        THEN [db |-> d, resp |-> HttpError("Failed to update reaction",
                                           StatusInternalServerError)]
        ELSE [db |-> r.db, resp |-> Redirect("/post/")]

(* The handler the mux has registered for the request's path. *)
Route(d, userID, request) ==
    CASE request.op = "create_post" -> CreatePostPageHandler(d, userID, request)
      [] request.op = "add_comment" -> AddCommentHandler(d, userID, request)
      [] request.op = "delete_post" -> DeletePostHandler(d, userID, request)
      [] request.op = "delete_comment" -> DeleteCommentHandler(d, userID, request)
      [] request.op = "like_post" -> LikePostHandler(d, userID, request)
      [] request.op = "like_comment" -> LikeCommentHandler(d, userID, request)

RequireAuth(d, t, cookie, request) ==
    LET v == GetCurrentUserID(d, cookie, t)
    IN  IF ~v.ok THEN [db |-> v.db, resp |-> Redirect("/login")]
        ELSE Route(v.db, v.userID, request)

StatusMethodNotAllowed == 405

MethodInputs == {"GET", "POST"}

(* LogoutHandler: any method but POST is refused before the cookie is read;   *)
(* a POST deletes the session of the cookie's token, if the request carries    *)
(* one, and whatever DeleteSession returns it redirects to the login page.     *)
LogoutHandler(d, method, cookie) ==
    IF method # "POST"
    THEN [db |-> d, resp |-> HttpError("Method not allowed", StatusMethodNotAllowed)]
    ELSE [db |-> IF cookie = NoCookie THEN d ELSE DeleteSessionExec(d, cookie).db,
          resp |-> Redirect("/login?logout=success")]

(* One request to /logout, which the mux hands to LogoutHandler directly. *)
LogoutRequest(method, cookie) ==
    LET r == LogoutHandler(DB, method, cookie)
    IN  /\ Commit(r.db)
        /\ ended' = ended \cup {[token |-> x.token, how |-> "revoked"] :
                                   x \in sessions \ r.db.sessions}
        /\ UNCHANGED <<tokens, now, pc, req, res>>

CookieInputs == {NoCookie} \cup TokenInputs

RequestInputs ==
    {[op |-> "create_post", title |-> <<" ", "Hello", " ">>, content |-> <<"World">>,
      categories |-> <<General>>, post_id |-> 0, comment_id |-> 0, action |-> ""],
     [op |-> "add_comment", title |-> <<>>, content |-> <<"Nice", " ">>,
      categories |-> <<>>, post_id |-> 1, comment_id |-> 0, action |-> ""],
     [op |-> "delete_post", title |-> <<>>, content |-> <<>>,
      categories |-> <<>>, post_id |-> 1, comment_id |-> 0, action |-> ""],
     [op |-> "delete_comment", title |-> <<>>, content |-> <<>>,
      categories |-> <<>>, post_id |-> 1, comment_id |-> 1, action |-> ""],
     [op |-> "like_post", title |-> <<>>, content |-> <<>>,
      categories |-> <<>>, post_id |-> 1, comment_id |-> 0, action |-> "like"],
     [op |-> "like_post", title |-> <<>>, content |-> <<>>,
      categories |-> <<>>, post_id |-> 1, comment_id |-> 0, action |-> "dislike"],
     [op |-> "like_comment", title |-> <<>>, content |-> <<>>,
      categories |-> <<>>, post_id |-> 0, comment_id |-> 1, action |-> "like"]}

(* One request to a protected route, from authentication to response. *)
ProtectedRequest(cookie, request) ==
    LET r == RequireAuth(DB, now, cookie, request)
    IN  /\ r.db.seq.posts <= MaxPosts
        /\ r.db.seq.comments <= MaxComments
        /\ Cardinality(r.db.post_likes) + Cardinality(r.db.comment_likes) <= MaxLikes
        /\ Commit(r.db)
        /\ ended' = ended \cup {[token |-> x.token, how |-> "expired"] :
                                   x \in sessions \ r.db.sessions}
        /\ UNCHANGED <<tokens, now, pc, req, res>>

-----------------------------------------------------------------------------

Init ==
    /\ users = RegisteredUsers
    /\ categories = SeedCategories
    /\ posts = {}
    /\ post_categories = {}
    /\ comments = {}
    /\ post_likes = {}
    /\ comment_likes = {}
    /\ sessions = {}
    /\ seq = [users |-> 2, categories |-> 5, posts |-> 0, comments |-> 0]
    /\ tokens = <<>>
    /\ ended = {}
    /\ now = 0
    /\ pc = [w \in Workers |-> "idle"]
    /\ req = [w \in Workers |-> [op |-> "none"]]
    /\ res = [w \in Workers |-> [err |-> Nil, raced |-> FALSE]]

Next ==
    \/ \E a \in AuthorInputs, t \in TitleInputs, c \in ContentInputs, n \in CategoryInputs :
           CreatePost(a, t, c, n)
    \/ \E p \in PostIDInputs, a \in CommenterInputs, c \in CommentInputs :
           CreateComment(p, a, c)
    \/ \E p \in PostIDInputs, u \in UserIDInputs : DeletePost(p, u)
    \/ \E c \in CommentIDInputs, u \in UserIDInputs : DeleteComment(c, u)
    \/ \E u \in UserIDInputs, p \in PostIDInputs, v \in ReactionInputs :
           TogglePostReaction(u, p, v)
    \/ \E u \in UserIDInputs, c \in CommentIDInputs, v \in ReactionInputs :
           ToggleCommentReaction(u, c, v)

Spec == Init /\ [][Next]_vars

(* The forum with one post of user 1 and one comment on it by user 2, as     *)
(* CreatePost and CreateComment leave it, and the like handlers running.      *)
DBWithPostAndComment ==
    LET d0 == [users |-> RegisteredUsers, categories |-> SeedCategories, posts |-> {},
               post_categories |-> {}, comments |-> {}, post_likes |-> {},
               comment_likes |-> {}, sessions |-> {},
               seq |-> [users |-> 2, categories |-> 5, posts |-> 0, comments |-> 0]]
        d1 == CreatePostTx(d0, 1, <<"Hello">>, <<"World">>, <<General>>)
    IN  CreateCommentExec(d1.db, d1.id, 2, <<"Nice">>).db

InitReact ==
    /\ now = 0
    /\ tokens = <<>>
    /\ ended = {}
    /\ users = DBWithPostAndComment.users
    /\ categories = DBWithPostAndComment.categories
    /\ posts = DBWithPostAndComment.posts
    /\ post_categories = DBWithPostAndComment.post_categories
    /\ comments = DBWithPostAndComment.comments
    /\ post_likes = DBWithPostAndComment.post_likes
    /\ comment_likes = DBWithPostAndComment.comment_likes
    /\ sessions = DBWithPostAndComment.sessions
    /\ seq = DBWithPostAndComment.seq
    /\ pc = [w \in Workers |-> "idle"]
    /\ req = [w \in Workers |-> [op |-> "none"]]
    /\ res = [w \in Workers |-> [err |-> Nil, raced |-> FALSE]]

NextReact ==
    \/ \E w \in Workers, u \in IDs(users), p \in IDs(posts), a \in ActionInputs :
           LikePostHandlerBegin(w, u, p, a)
    \/ \E w \in Workers : LikePostHandlerExec(w)
    \/ \E w \in Workers, u \in IDs(users), c \in IDs(comments), a \in ActionInputs :
           LikeCommentHandlerBegin(w, u, c, a)
    \/ \E w \in Workers : LikeCommentHandlerExec(w)

SpecReact == InitReact /\ [][NextReact]_vars

NextSession ==
    \/ \E w \in Workers, u \in IDs(users) : CreateSessionDelete(w, u)
    \/ \E w \in Workers : CreateSessionInsert(w)
    \/ \E k \in TokenInputs : ValidateSession(k)
    \/ \E k \in TokenInputs : DeleteSession(k)
    \/ Tick

SpecSession == Init /\ [][NextSession]_vars

NextAuth ==
    \/ \E e \in EmailInputs, u \in UsernameInputs, p \in PasswordInputs :
           RegisterUser(e, u, p)
    \/ \E w \in Workers, e \in EmailInputs, p \in PasswordInputs : LoginHandler(w, e, p)
    \/ \E w \in Workers : CreateSessionInsert(w)

SpecAuth == Init /\ [][NextAuth]_vars

(* Readers of a post running while posts and comments are written. Each     *)
(* write is one transaction (or one statement): readers on other            *)
(* connections see none of it before its commit and all of it after.        *)
NextRead ==
    \/ \E a \in AuthorInputs, t \in TitleInputs, c \in ContentInputs, n \in CategoryInputs :
           CreatePost(a, t, c, n)
    \/ \E p \in PostIDInputs, a \in CommenterInputs, c \in CommentInputs :
           CreateComment(p, a, c)
    \/ \E p \in PostIDInputs, u \in UserIDInputs : DeletePost(p, u)
    \/ \E c \in CommentIDInputs, u \in UserIDInputs : DeleteComment(c, u)
    \/ \E w \in Workers, p \in PostIDInputs : GetPostByIDQueryRow(w, p)
    \/ \E w \in Workers : GetPostByIDQueryCategories(w)

SpecRead == Init /\ [][NextRead]_vars

(* The list calls on a forum that holds n posts and n comments on post 1,   *)
(* as CreatePost, CreateComment and the reaction toggles leave them: posts   *)
(* of users 1 and 2 in turn, linked to General unless the id is a multiple   *)
(* of 3 and to Technology when it is even, liked by user 1 when the id is    *)
(* 1 more than a multiple of 3 and disliked by user 1 when it is 2 more,     *)
(* liked by user 2 when it is even, with one more comment on post 2. The     *)
(* rows of a small forum were written two to a clock reading.                 *)
ListedInputs == {0, 3, PostLimitDefault + 1, CommentLimitDefault + 1, MaxListed}

ListedAt(n, i) == IF n <= 3 THEN i \div 2 ELSE i

ListedStore(n) ==
    [users |-> RegisteredUsers,
     categories |-> SeedCategories,
     posts |-> {[id |-> i, author_id |-> 1 + (i % 2), title |-> <<"Hello">>,
                 content |-> <<"World">>, created_at |-> ListedAt(n, i)] : i \in 1 .. n},
     post_categories |->
         {[post_id |-> i, category_id |-> 1] : i \in {i \in 1 .. n : i % 3 # 0}}
         \cup {[post_id |-> i, category_id |-> 2] : i \in {i \in 1 .. n : i % 2 = 0}},
     comments |->
         {[id |-> i, post_id |-> 1, author_id |-> 2, content |-> <<"Nice">>,
           created_at |-> ListedAt(n, i)] : i \in 1 .. n}
         \cup {[id |-> n + 1, post_id |-> 2, author_id |-> 1, content |-> <<"Nice">>,
                created_at |-> ListedAt(n, n)] : i \in {i \in {2} : i <= n}},
     post_likes |->
         {[user_id |-> 1, post_id |-> i, reaction |-> 1] : i \in {i \in 1 .. n : i % 3 = 1}}
         \cup {[user_id |-> 1, post_id |-> i, reaction |-> -1] :
                   i \in {i \in 1 .. n : i % 3 = 2}}
         \cup {[user_id |-> 2, post_id |-> i, reaction |-> 1] :
                   i \in {i \in 1 .. n : i % 2 = 0}},
     comment_likes |-> {},
     sessions |-> {},
     seq |-> [users |-> 2, categories |-> 5, posts |-> n,
              comments |-> IF n >= 2 THEN n + 1 ELSE n]]

InitList ==
    \E n \in ListedInputs :
        /\ now = n
        /\ tokens = <<>>
        /\ ended = {}
        /\ users = ListedStore(n).users
        /\ categories = ListedStore(n).categories
        /\ posts = ListedStore(n).posts
        /\ post_categories = ListedStore(n).post_categories
        /\ comments = ListedStore(n).comments
        /\ post_likes = ListedStore(n).post_likes
        /\ comment_likes = ListedStore(n).comment_likes
        /\ sessions = ListedStore(n).sessions
        /\ seq = ListedStore(n).seq
        /\ pc = [w \in Workers |-> "idle"]
        /\ req = [w \in Workers |-> [op |-> "none"]]
        /\ res = [w \in Workers |-> [err |-> Nil, raced |-> FALSE]]

Readers == {"w1"}

OptionInputs ==
    [Limit : {-1, 0, 2, 100, 101}, Offset : {-1, 0, 1},
     CategoryName : {<<>>, <<"Technology">>}, AuthorID : {0, 1},
     LikedByUser : {0, 1}, Search : {<<>>}, OrderDesc : BOOLEAN]

(* One request that lists posts, and one that lists the comments of a post. *)
ListPostsRequest(w, opt) ==
    /\ pc[w] = "idle"
    /\ pc' = [pc EXCEPT ![w] = "done"]
    /\ req' = [req EXCEPT ![w] = [op |-> "list_posts", opt |-> opt]]
    /\ \E l \in ListPosts(opt) :
           res' = [res EXCEPT ![w] = [err |-> Nil, raced |-> FALSE, list |-> l]]
    /\ UNCHANGED <<tables, tokens, ended, now>>

ListCommentsRequest(w, postID) ==
    /\ pc[w] = "idle"
    /\ pc' = [pc EXCEPT ![w] = "done"]
    /\ req' = [req EXCEPT ![w] = [op |-> "list_comments", target |-> postID]]
    /\ \E l \in ListCommentsWithDetails(postID) :
           res' = [res EXCEPT ![w] = [err |-> Nil, raced |-> FALSE, list |-> l]]
    /\ UNCHANGED <<tables, tokens, ended, now>>

NextList ==
    \/ \E w \in Readers, opt \in OptionInputs : ListPostsRequest(w, opt)
    \/ \E w \in Readers, p \in {1, 2, 3} : ListCommentsRequest(w, p)

SpecList == InitList /\ [][NextList]_vars

(* The liked-posts page of a user, read while posts are created, reacted to *)
(* and deleted.                                                               *)
LikedPostsHandler(w, userID) ==
    /\ pc' = [pc EXCEPT ![w] = "done"]
    /\ req' = [req EXCEPT ![w] = [op |-> "liked_posts", userID |-> userID]]
    /\ \E l \in GetLikedPostsByUserID(userID) :
           res' = [res EXCEPT ![w] = [err |-> Nil, raced |-> FALSE, list |-> l]]
    /\ UNCHANGED <<tables, tokens, ended, now>>

NextLiked ==
    \/ \E a \in AuthorInputs, t \in TitleInputs, c \in ContentInputs, n \in CategoryInputs :
           CreatePost(a, t, c, n)
    \/ \E p \in PostIDInputs, u \in UserIDInputs : DeletePost(p, u)
    \/ \E u \in UserIDInputs, p \in PostIDInputs, v \in ReactionInputs :
           TogglePostReaction(u, p, v)
    \/ \E w \in Readers, u \in IDs(users) : LikedPostsHandler(w, u)

SpecLiked == Init /\ [][NextLiked]_vars

(* The protected routes on a forum where user 1 has logged in at 0 and      *)
(* again at 12, which replaced token 1 by token 3, and user 2 has logged in  *)
(* at 0 with token 2; sessions are revoked and expire while requests come.    *)
StoreWithSessions ==
    LET d0 == [users |-> RegisteredUsers, categories |-> SeedCategories, posts |-> {},
               post_categories |-> {}, comments |-> {}, post_likes |-> {},
               comment_likes |-> {}, sessions |-> {},
               seq |-> [users |-> 2, categories |-> 5, posts |-> 0, comments |-> 0]]
        d1 == ExecInsertSession(ExecDeleteSessionsOfUser(d0, 1), 1, 1, 0 + SessionLifetime).db
        d2 == ExecInsertSession(ExecDeleteSessionsOfUser(d1, 2), 2, 2, 0 + SessionLifetime).db
    IN  ExecInsertSession(ExecDeleteSessionsOfUser(d2, 1), 3, 1, 12 + SessionLifetime).db

InitGate ==
    /\ now = 12
    /\ tokens = <<1, 2, 1>>
    /\ ended = {[token |-> 1, how |-> "replaced"]}
    /\ users = StoreWithSessions.users
    /\ categories = StoreWithSessions.categories
    /\ posts = StoreWithSessions.posts
    /\ post_categories = StoreWithSessions.post_categories
    /\ comments = StoreWithSessions.comments
    /\ post_likes = StoreWithSessions.post_likes
    /\ comment_likes = StoreWithSessions.comment_likes
    /\ sessions = StoreWithSessions.sessions
    /\ seq = StoreWithSessions.seq
    /\ pc = [w \in Workers |-> "idle"]
    /\ req = [w \in Workers |-> [op |-> "none"]]
    /\ res = [w \in Workers |-> [err |-> Nil, raced |-> FALSE]]

NextGate ==
    \/ \E k \in CookieInputs, q \in RequestInputs : ProtectedRequest(k, q)
    \/ \E m \in MethodInputs, k \in CookieInputs : LogoutRequest(m, k)
    \/ \E k \in TokenInputs : DeleteSession(k)
    \/ Tick

SpecGate == InitGate /\ [][NextGate]_vars

(* Logins of one request at a time, validation and the periodic cleanup, on a *)
(* server in any of the zones, with the clock read every few hours.            *)
NextClean ==
    \/ \E w \in Readers, u \in IDs(users) : CreateSessionDelete(w, u)
    \/ \E w \in Readers : CreateSessionInsert(w)
    \/ \E k \in TokenInputs : ValidateSession(k)
    \/ \E z \in ZoneInputs : CleanExpiredSessions(z)
    \/ \E h \in ElapseInputs : Elapse(h)

SpecClean == Init /\ [][NextClean]_vars

(* Two registration requests at a time, for addresses and names that are    *)
(* free when the server starts.                                               *)
NewEmailInputs == {<<"c", "@", "x.com">>, <<"d", "@", "x.com">>}
NewUsernameInputs == {<<"carol">>, <<"dave">>, <<" ">>}

NextRegister ==
    \/ \E w \in Workers, e \in NewEmailInputs, u \in NewUsernameInputs :
           RegisterUserValidate(w, e, u, Secret)
    \/ \E w \in Workers : RegisterUserEmailExists(w)
    \/ \E w \in Workers : RegisterUserUsernameExists(w)
    \/ \E w \in Workers : RegisterUserInsert(w)

SpecRegister == Init /\ [][NextRegister]_vars

(* Registration and login with passwords at the length the hash reads to:   *)
(* registrations use passwords of at most 72 bytes, logins also try one byte  *)
(* more.                                                                      *)
Password72 == [i \in 1 .. BcryptMaxLen |-> IF i <= Len(Secret) THEN Secret[i] ELSE "x"]
Password73 == Password72 \o <<"y">>
RegisterPasswordInputs == {Secret, Password72}
LoginPasswordInputs == {Secret, Hunter, Password72, Password73}
LoginEmailInputs == {<<"a", "@", "x.com">>} \cup NewEmailInputs

NextLogin ==
    \/ \E e \in NewEmailInputs, u \in NewUsernameInputs, p \in RegisterPasswordInputs :
           RegisterUser(e, u, p)
    \/ \E w \in Readers, e \in LoginEmailInputs, p \in LoginPasswordInputs :
           LoginHandler(w, e, p)
    \/ \E w \in Readers : CreateSessionInsert(w)

SpecLogin == Init /\ [][NextLogin]_vars

(* The detail view of a post read by one request while others react to the   *)
(* post and its comment and delete them, on the forum with one post and one    *)
(* comment.                                                                    *)
NextDetail ==
    \/ \E u \in IDs(users), p \in IDs(posts), v \in {-1, 0, 1} : TogglePostReaction(u, p, v)
    \/ \E u \in IDs(users), c \in IDs(comments), v \in {-1, 0, 1} :
           ToggleCommentReaction(u, c, v)
    \/ \E c \in IDs(comments), u \in IDs(users) : DeleteComment(c, u)
    \/ \E p \in IDs(posts), u \in IDs(users) : DeletePost(p, u)
    \/ \E w \in Readers, p \in {1, 2}, v \in ViewerInputs : GetPostWithDetailsPost(w, p, v)
    \/ \E w \in Readers : GetPostWithDetailsCategories(w)
    \/ \E w \in Readers : GetPostWithDetailsUsername(w)
    \/ \E w \in Readers : GetPostWithDetailsReactions(w)
    \/ \E w \in Readers : GetPostWithDetailsComments(w)
    \/ \E w \in Readers : GetPostWithDetailsViewer(w)

SpecDetail == InitReact /\ [][NextDetail]_vars

(* Two requests at a time that create posts, naming a category that does not *)
(* exist yet.                                                                 *)
MaxRacingPosts == 2

News == <<"news">>
NewCategoryInputs == {<< News >>, << <<" ", "news">>, General >>}

NextPosts ==
    \/ \E w \in Workers, a \in {1, 2}, t \in TitleInputs, n \in NewCategoryInputs :
           seq.posts < MaxRacingPosts /\ CreatePostValidate(w, a, t, <<"World">>, n)
    \/ \E w \in Workers : seq.posts < MaxRacingPosts /\ CreatePostInsert(w)
    \/ \E w \in Workers : CreatePostAssociate(w)
    \/ \E w \in Workers : CreatePostCommit(w)

SpecPosts == Init /\ [][NextPosts]_vars

(* The forum with two posts, as CreatePost, CreateComment and CreateSession  *)
(* leave it: post 1 of user 1 is the only post of a category of its own,      *)
(* post 2 of user 2 is in General and Technology, each has one comment by the *)
(* other user, and user 1 is logged in. Reactions and deletions run on it.    *)
DBWithTwoPosts ==
    LET d0 == [users |-> RegisteredUsers, categories |-> SeedCategories, posts |-> {},
               post_categories |-> {}, comments |-> {}, post_likes |-> {},
               comment_likes |-> {}, sessions |-> {},
               seq |-> [users |-> 2, categories |-> 5, posts |-> 0, comments |-> 0]]
        d1 == CreatePostTx(d0, 1, <<"Hello">>, <<"World">>, << News >>)
        d2 == CreatePostTx(d1.db, 2, <<"Hello">>, <<"World">>, <<General, <<"Technology">> >>)
        d3 == CreateCommentExec(d2.db, d1.id, 2, <<"Nice">>)
        d4 == CreateCommentExec(d3.db, d2.id, 1, <<"Nice">>)
    IN  ExecInsertSession(d4.db, 1, 1, SessionLifetime).db

InitDelete ==
    /\ now = 0
    /\ tokens = <<1>>
    /\ ended = {}
    /\ users = DBWithTwoPosts.users
    /\ categories = DBWithTwoPosts.categories
    /\ posts = DBWithTwoPosts.posts
    /\ post_categories = DBWithTwoPosts.post_categories
    /\ comments = DBWithTwoPosts.comments
    /\ post_likes = DBWithTwoPosts.post_likes
    /\ comment_likes = DBWithTwoPosts.comment_likes
    /\ sessions = DBWithTwoPosts.sessions
    /\ seq = DBWithTwoPosts.seq
    /\ pc = [w \in Workers |-> "idle"]
    /\ req = [w \in Workers |-> [op |-> "none"]]
    /\ res = [w \in Workers |-> [err |-> Nil, raced |-> FALSE]]

NextDelete ==
    \/ \E u \in IDs(users), p \in IDs(posts), v \in {-1, 0, 1} : TogglePostReaction(u, p, v)
    \/ \E u \in IDs(users), c \in IDs(comments), v \in {-1, 0, 1} :
           ToggleCommentReaction(u, c, v)
    \/ \E c \in IDs(comments), u \in IDs(users) : DeleteComment(c, u)
    \/ \E p \in IDs(posts), u \in IDs(users) : DeletePost(p, u)

SpecDelete == InitDelete /\ [][NextDelete]_vars

(* Registration together with the content, reaction and delete calls. *)
NextInput ==
    \/ \E e \in EmailInputs, u \in UsernameInputs, p \in PasswordInputs :
           RegisterUser(e, u, p)
    \/ \E a \in AuthorInputs, t \in TitleInputs, c \in ContentInputs, n \in CategoryInputs :
           CreatePost(a, t, c, n)
    \/ \E p \in PostIDInputs, a \in CommenterInputs, c \in CommentInputs :
           CreateComment(p, a, c)
    \/ \E u \in ReactorInputs, p \in PostIDInputs, v \in ReactionInputs :
           TogglePostReaction(u, p, v)
    \/ \E u \in ReactorInputs, c \in CommentIDInputs, v \in ReactionInputs :
           ToggleCommentReaction(u, c, v)
    \/ \E p \in PostIDInputs, u \in UserIDInputs : DeletePost(p, u)
    \/ \E c \in CommentIDInputs, u \in UserIDInputs : DeleteComment(c, u)

SpecInput == Init /\ [][NextInput]_vars

-----------------------------------------------------------------------------
(* Properties of post deletion *)

NoRowOfPost(d, was, p) ==
    /\ p \notin IDs(d.posts)
    /\ \A c \in d.comments : c.post_id # p
    /\ \A r \in d.post_likes : r.post_id # p
    /\ \A r \in d.comment_likes : r.comment_id \notin was
    /\ \A r \in d.post_categories : r.post_id # p

(* C1: a step in which DeletePost(p, u) succeeds leaves no post row p, no     *)
(* comment of p, no post_likes row of p, no comment_likes row of a comment    *)
(* that belonged to p and no post_categories row of p; ListComments(p) is     *)
(* then empty and GetPost(p) finds no row.                                    *)
C1_DeletePostCascades ==
    [][\A p \in PostIDInputs, u \in UserIDInputs :
          (DeletePostTx(DB, p, u).err = Nil /\ DeletePost(p, u)) =>
              /\ NoRowOfPost(DB', {c.id : c \in {c \in comments : c.post_id = p}}, p)
              /\ ListCommentsByPostID(p, CommentLimitMax, 0)' = {<<>>}
              /\ ~GetPostByID(p)'.ok
              /\ GetPostByID(p)'.err = ErrNoRows]_vars

(* A post was created with category links and a comment, and is gone with them. *)
C1_Witness ==
    /\ seq.posts >= 1 /\ posts = {}
    /\ seq.comments >= 1 /\ comments = {}
    /\ seq.categories > 5 /\ post_categories = {}

(* C2 as stated: DeletePost(p, u) fails with NotFound whenever p does not     *)
(* exist and with Forbidden whenever p exists and u is not its author, and     *)
(* changes nothing.                                                            *)
C2_AsStated ==
    \A p \in PostIDInputs, u \in UserIDInputs :
        LET r == DeletePostTx(DB, p, u)
            found == {x \in posts : x.id = p}
        IN  /\ found = {} => r.err = ErrPostNotFound /\ r.db = DB
            /\ (found # {} /\ \A x \in found : x.author_id # u)
                   => r.err = ErrNotYourPost /\ r.db = DB

(* C2, amended: for positive ids p and u, DeletePost(p, u) fails with NotFound *)
(* when p does not exist (also after a successful delete of p) and with        *)
(* Forbidden when p exists and u is not its author; with a non-positive p or u *)
(* it fails with the invalid-id error; in all of these the store is unchanged. *)
C2_DeletePostRefused ==
    \A p \in PostIDInputs, u \in UserIDInputs :
        LET r == DeletePostTx(DB, p, u)
            found == {x \in posts : x.id = p}
        IN  /\ (p <= 0 \/ u <= 0) => r.err = ErrInvalidDelete /\ r.db = DB
            /\ (p > 0 /\ u > 0 /\ found = {}) => r.err = ErrPostNotFound /\ r.db = DB
            /\ (p > 0 /\ u > 0 /\ found # {} /\ \A x \in found : x.author_id # u)
                   => r.err = ErrNotYourPost /\ r.db = DB

(* A post with a comment, a reaction and a comment reaction, whose deletion   *)
(* by the other user is refused.                                               *)
C2_Witness ==
    \E x \in posts, c \in comments, u \in IDs(users) :
        /\ c.post_id = x.id
        /\ \E r \in post_likes : r.post_id = x.id
        /\ \E r \in comment_likes : r.comment_id = c.id
        /\ u # x.author_id
        /\ DeletePostTx(DB, x.id, u).err = ErrNotYourPost

-----------------------------------------------------------------------------
(* Properties of reactions *)

PostReactionRows(d, u, t) == {r \in d.post_likes : r.user_id = u /\ r.post_id = t}
CommentReactionRows(d, u, t) ==
    {r \in d.comment_likes : r.user_id = u /\ r.comment_id = t}

(* C3: setting the same reaction of (u, t) again changes nothing: the store   *)
(* after two calls is the store after one; a call with +1 on an existing       *)
(* target by an existing user leaves exactly one row of (u, t), holding +1.    *)
C3_SetReactionIdempotent ==
    \A u \in UserIDInputs, v \in {-1, 0, 1} :
        /\ \A t \in PostIDInputs :
              LET r1 == TogglePostReactionExec(DB, u, t, v)
                  r2 == TogglePostReactionExec(r1.db, u, t, v)
              IN  /\ r2.db = r1.db
                  /\ (v = 1 /\ u \in IDs(users) /\ t \in IDs(posts)) =>
                         /\ r1.err = Nil
                         /\ PostReactionRows(r2.db, u, t) =
                                {[user_id |-> u, post_id |-> t, reaction |-> 1]}
        /\ \A t \in CommentIDInputs :
              LET r1 == ToggleCommentReactionExec(DB, u, t, v)
                  r2 == ToggleCommentReactionExec(r1.db, u, t, v)
              IN  /\ r2.db = r1.db
                  /\ (v = 1 /\ u \in IDs(users) /\ t \in IDs(comments)) =>
                         /\ r1.err = Nil
                         /\ CommentReactionRows(r2.db, u, t) =
                                {[user_id |-> u, comment_id |-> t, reaction |-> 1]}

(* A like is stored, and liking again leaves the store as it is. *)
C3_Witness ==
    \E r \in post_likes :
        /\ r.reaction = 1
        /\ TogglePostReactionExec(DB, r.user_id, r.post_id, 1) = [db |-> DB, err |-> Nil]

ReactionRowsFor(v, row) == IF v = 0 THEN {} ELSE {[row EXCEPT !.reaction = v]}

(* C4: after successful SetReaction calls of (u, t) the stored reaction is    *)
(* what the last call alone decides: no row for 0, else exactly one row        *)
(* holding its value, whatever was stored or set before.                       *)
C4_LastReactionWins ==
    \A u \in UserIDInputs, v1 \in ReactionInputs, v2 \in ReactionInputs :
        /\ \A t \in PostIDInputs :
              LET r1 == TogglePostReactionExec(DB, u, t, v1)
                  r2 == TogglePostReactionExec(r1.db, u, t, v2)
                  row == [user_id |-> u, post_id |-> t, reaction |-> 0]
              IN  /\ r1.err = Nil => PostReactionRows(r1.db, u, t) = ReactionRowsFor(v1, row)
                  /\ (r1.err = Nil /\ r2.err = Nil)
                         => PostReactionRows(r2.db, u, t) = ReactionRowsFor(v2, row)
        /\ \A t \in CommentIDInputs :
              LET r1 == ToggleCommentReactionExec(DB, u, t, v1)
                  r2 == ToggleCommentReactionExec(r1.db, u, t, v2)
                  row == [user_id |-> u, comment_id |-> t, reaction |-> 0]
              IN  /\ r1.err = Nil => CommentReactionRows(r1.db, u, t) = ReactionRowsFor(v1, row)
                  /\ (r1.err = Nil /\ r2.err = Nil)
                         => CommentReactionRows(r2.db, u, t) = ReactionRowsFor(v2, row)

(* A dislike is stored on an existing post: the next like has to overwrite it. *)
C4_Witness ==
    \E r \in post_likes :
        /\ r.reaction = -1
        /\ r.post_id \in IDs(posts)
        /\ PostReactionRows(TogglePostReactionExec(DB, r.user_id, r.post_id, 1).db,
                            r.user_id, r.post_id) = {[r EXCEPT !.reaction = 1]}

(* C5: at most one post_likes row per (user, post) and one comment_likes row  *)
(* per (user, comment), and every stored reaction is -1 or +1.                 *)
C5_OneReactionPerPair ==
    /\ \A r1, r2 \in post_likes :
          (r1.user_id = r2.user_id /\ r1.post_id = r2.post_id) => r1 = r2
    /\ \A r1, r2 \in comment_likes :
          (r1.user_id = r2.user_id /\ r1.comment_id = r2.comment_id) => r1 = r2
    /\ \A r \in post_likes \cup comment_likes : r.reaction \in {-1, 1}

(* Both users have reacted to the same post. *)
C5_Witness ==
    \E r1, r2 \in post_likes : r1.post_id = r2.post_id /\ r1.user_id # r2.user_id

(* C6: CountReactions(t) returns as likes the number of users whose stored    *)
(* reaction on t is +1 and as dislikes the number whose stored reaction is -1, *)
(* without error whenever t has a reaction row.                                *)
C6_CountsMatchStoredReactions ==
    /\ \A t \in PostIDInputs :
          LET c == CountPostReactions(t)
              likers == {u \in IDs(users) :
                  [user_id |-> u, post_id |-> t, reaction |-> 1] \in post_likes}
              dislikers == {u \in IDs(users) :
                  [user_id |-> u, post_id |-> t, reaction |-> -1] \in post_likes}
          IN  /\ c.r = [Likes |-> Cardinality(likers), Dislikes |-> Cardinality(dislikers)]
              /\ (\E r \in post_likes : r.post_id = t) => c.err = Nil
    /\ \A t \in CommentIDInputs :
          LET c == CountCommentReactions(t)
              likers == {u \in IDs(users) :
                  [user_id |-> u, comment_id |-> t, reaction |-> 1] \in comment_likes}
              dislikers == {u \in IDs(users) :
                  [user_id |-> u, comment_id |-> t, reaction |-> -1] \in comment_likes}
          IN  /\ c.r = [Likes |-> Cardinality(likers), Dislikes |-> Cardinality(dislikers)]
              /\ (\E r \in comment_likes : r.comment_id = t) => c.err = Nil

(* One user likes a post and the other dislikes it: the count is {1, 1}. *)
C6_Witness ==
    \E t \in IDs(posts) :
        CountPostReactions(t) = [r |-> [Likes |-> 1, Dislikes |-> 1], err |-> Nil]

(* C7: CountReactions(t) returns {0, 0} without error whenever t has no       *)
(* reaction row.                                                               *)
C7_EmptyCountSucceeds ==
    /\ \A t \in PostIDInputs :
          (\A r \in post_likes : r.post_id # t) =>
              CountPostReactions(t) = [r |-> [Likes |-> 0, Dislikes |-> 0], err |-> Nil]
    /\ \A t \in CommentIDInputs :
          (\A r \in comment_likes : r.comment_id # t) =>
              CountCommentReactions(t) = [r |-> [Likes |-> 0, Dislikes |-> 0], err |-> Nil]

-----------------------------------------------------------------------------
(* Properties of concurrent reactions *)

StoredReactionRows(d, op, u, t) ==
    IF op = "like_post" THEN {r.reaction : r \in PostReactionRows(d, u, t)}
    ELSE {r.reaction : r \in CommentReactionRows(d, u, t)}

ReactionsFor(v) == IF v = 0 THEN {} ELSE {v}

SamePair(w1, w2) ==
    /\ pc[w1] = "done" /\ pc[w2] = "done"
    /\ req[w1].op = req[w2].op
    /\ req[w1].userID = req[w2].userID
    /\ req[w1].target = req[w2].target

(* C8: like requests of two workers on the same (user, target) that overlap   *)
(* never fail on the uniqueness constraint and never leave two rows of the     *)
(* pair; what is stored once both are done is what one of the two serial       *)
(* orders leaves, and it is the later writer's value.                          *)
C8_ConcurrentReactionsSerialize ==
    /\ \A w \in Workers : pc[w] = "done" => res[w].err = Nil
    /\ \A r1, r2 \in post_likes :
          (r1.user_id = r2.user_id /\ r1.post_id = r2.post_id) => r1 = r2
    /\ \A r1, r2 \in comment_likes :
          (r1.user_id = r2.user_id /\ r1.comment_id = r2.comment_id) => r1 = r2
    /\ \A w1, w2 \in Workers :
          (w1 # w2 /\ SamePair(w1, w2)) =>
              LET stored == StoredReactionRows(DB, req[w1].op, req[w1].userID,
                                               req[w1].target)
              IN  /\ stored \in {ReactionsFor(req[w1].reaction),
                                 ReactionsFor(req[w2].reaction)}
                  /\ res[w1].raced => stored = ReactionsFor(req[w2].reaction)

(* Two requests on the same pair overlapped, one setting a like and the other *)
(* a dislike, and both are done.                                               *)
C8_Witness ==
    \E w1, w2 \in Workers :
        /\ w1 # w2 /\ SamePair(w1, w2)
        /\ res[w1].raced
        /\ req[w1].reaction = 1 /\ req[w2].reaction = -1
        /\ res[w1].err = Nil /\ res[w2].err = Nil

-----------------------------------------------------------------------------
(* Properties of session creation *)

SessionsOf(rows, u) == {r \in rows : r.user_id = u}
SessionsOfOthers(rows, u) == {r \in rows : r.user_id # u}

(* C9: when CreateSession(u) returns token t and no other CreateSession of u  *)
(* ran during the call, t is the only session row of u, it expires 24 hours    *)
(* after the call's time, every other token ever issued to u fails Validate    *)
(* with "invalid session", and neither step of the call touches the sessions   *)
(* of other users.                                                             *)
C9_CreateSessionReplaces ==
    [][\A w \in Workers :
          /\ (CreateSessionInsert(w) /\ ~res[w].raced) =>
                LET u == req[w].userID
                    t == req[w].target
                IN  /\ res'[w].err = Nil
                    /\ SessionsOf(sessions', u) =
                           {[token |-> t, user_id |-> u,
                             expires_at |-> req[w].startedAt + SessionLifetime]}
                    /\ \A k \in 1 .. Len(tokens) :
                           (tokens[k] = u /\ k # t) =>
                               ValidateSessionExec(DB', k, now).err = ErrInvalidSession
                    /\ SessionsOfOthers(sessions', u) = SessionsOfOthers(sessions, u)
          /\ \A u \in IDs(users) :
                CreateSessionDelete(w, u) =>
                    SessionsOfOthers(sessions', u) = SessionsOfOthers(sessions, u)]_vars

(* A login that no other login of the user overlapped has returned: the user  *)
(* holds the new token alone, an older token of the same user is gone, and     *)
(* the other user still has a session.                                         *)
C9_Witness ==
    \E w \in Workers :
        /\ pc[w] = "done" /\ req[w].op = "create_session" /\ ~res[w].raced
        /\ res[w].err = Nil
        /\ \E k \in 1 .. Len(tokens) : k < req[w].target /\ tokens[k] = req[w].userID
        /\ {r.token : r \in SessionsOf(sessions, req[w].userID)} = {req[w].target}
        /\ SessionsOfOthers(sessions, req[w].userID) # {}

LiveSessionsOf(u) == {r \in sessions : r.user_id = u /\ ~(now > r.expires_at)}

(* C10: in every state, whatever the interleaving of two logins of the same   *)
(* user, the user has at most one live session, so that of the tokens of two   *)
(* racing logins at most one validates.                                        *)
C10_OneLiveSessionPerUser ==
    \A u \in IDs(users) : Cardinality(LiveSessionsOf(u)) <= 1

-----------------------------------------------------------------------------
(* Properties of session validation *)

SessionRows(d, k) == {r \in d.sessions : r.token = k}

(* C11: once the clock is past a session's expires_at, Validate of its token  *)
(* fails with "session expired" and removes the row, and a Validate of the     *)
(* same token after that, at once or in any later state, fails with "invalid   *)
(* session".                                                                   *)
C11_ExpiredThenInvalid ==
    /\ \A r \in sessions :
          now > r.expires_at =>
              LET v == ValidateSessionExec(DB, r.token, now)
              IN  /\ v.err = ErrSessionExpired
                  /\ SessionRows(v.db, r.token) = {}
                  /\ ValidateSessionExec(v.db, r.token, now).err = ErrInvalidSession
    /\ \A e \in ended :
          e.how = "expired" =>
              ValidateSessionExec(DB, e.token, now).err = ErrInvalidSession

(* A token has been rejected as expired while the other user still holds a    *)
(* session. *)
C11_Witness ==
    \E e \in ended :
        /\ e.how = "expired"
        /\ SessionRows(DB, e.token) = {}
        /\ \E r \in sessions : r.user_id # tokens[e.token]

(* C12: Validate(t) succeeds exactly when a row of token t exists and          *)
(* now <= expires_at, the instant of expiry included; it then returns the user *)
(* the token was created for and leaves the store as it is; for a token with   *)
(* no row it fails with "invalid session" and leaves the store as it is.       *)
C12_ValidateAcceptsLiveTokens ==
    \A k \in TokenInputs :
        LET v == ValidateSessionExec(DB, k, now)
        IN  /\ (v.err = Nil) <=> (\E r \in SessionRows(DB, k) : now <= r.expires_at)
            /\ v.err = Nil => (v.userID = tokens[k] /\ v.db = DB)
            /\ SessionRows(DB, k) = {} => (v.err = ErrInvalidSession /\ v.db = DB)

(* A session is validated at the very instant it expires, and is accepted. *)
C12_Witness ==
    \E r \in sessions :
        /\ now = r.expires_at
        /\ ValidateSessionExec(DB, r.token, now) =
               [db |-> DB, userID |-> r.user_id, err |-> Nil]

(* C13: Revoke(t) removes the row of token t if there is one and returns no    *)
(* error whether or not there is one; a second call changes nothing more;      *)
(* Validate(t) then fails with "invalid session", at once and in every later   *)
(* state; the rows of all other tokens and all other tables stay as they are.  *)
C13_RevokeIdempotent ==
    /\ \A k \in TokenInputs :
          LET r1 == DeleteSessionExec(DB, k)
              r2 == DeleteSessionExec(r1.db, k)
          IN  /\ r1.err = Nil
              /\ SessionRows(r1.db, k) = {}
              /\ r2 = r1
              /\ ValidateSessionExec(r1.db, k, now).err = ErrInvalidSession
              /\ r1.db = [DB EXCEPT !.sessions = @ \ SessionRows(DB, k)]
    /\ \A e \in ended :
          e.how = "revoked" =>
              ValidateSessionExec(DB, e.token, now).err = ErrInvalidSession

(* A session has been revoked and the session of the other user is still      *)
(* there and still accepted. *)
C13_Witness ==
    \E e \in ended :
        /\ e.how = "revoked"
        /\ SessionRows(DB, e.token) = {}
        /\ \E r \in sessions :
               /\ r.user_id # tokens[e.token]
               /\ ValidateSessionExec(DB, r.token, now).err = Nil

-----------------------------------------------------------------------------
(* The life of a user's session *)

(* What the store holds for user u at time t. A revoked or replaced session   *)
(* is a deleted row, so Revoked shows as the step to NoSession that records    *)
(* the token in ended.                                                         *)
SessionState(rows, u, t) ==
    IF SessionsOf(rows, u) = {} THEN "NoSession"
    ELSE IF \E r \in SessionsOf(rows, u) : t <= r.expires_at THEN "Active"
    ELSE "Expired"

EndedNow(u, hows) ==
    \E e \in ended' \ ended : tokens[e.token] = u /\ e.how \in hows

(* C14: the session state of every user changes only from NoSession to Active *)
(* (by the INSERT of CreateSession), from Active to Expired (by the clock),     *)
(* from Active to no row by a revocation or a replacement, and from Expired to  *)
(* no row by the removal of the expired, revoked or replaced session; and a     *)
(* token that was once revoked, replaced or rejected as expired is not          *)
(* accepted by Validate in any later state.                                     *)
C14_SessionLifeCycle ==
    [][/\ \A u \in IDs(users) :
             LET a == SessionState(sessions, u, now)
                 b == SessionState(sessions', u, now')
             IN  a # b =>
                   \/ /\ a = "NoSession" /\ b = "Active"
                      /\ \E w \in Workers : CreateSessionInFlight(w, u) /\ CreateSessionInsert(w)
                   \/ a = "Active" /\ b = "Expired" /\ now' > now /\ sessions' = sessions
                   \/ a = "Active" /\ b = "NoSession" /\ EndedNow(u, {"revoked", "replaced"})
                   \/ /\ a = "Expired" /\ b = "NoSession"
                      /\ EndedNow(u, {"expired", "revoked", "replaced"})
       /\ \A e \in ended' :
             ValidateSessionExec(DB', e.token, now').err = ErrInvalidSession]_vars

(* One user has had a session rejected as expired and another one revoked,    *)
(* and holds a live session again. *)
C14_Witness ==
    \E u \in IDs(users) :
        /\ \E e \in ended : tokens[e.token] = u /\ e.how = "expired"
        /\ \E e \in ended : tokens[e.token] = u /\ e.how = "revoked"
        /\ SessionState(sessions, u, now) = "Active"

-----------------------------------------------------------------------------
(* Properties of accounts *)

WellFormedRegistration(e, u, p) ==
    /\ ParseAddressOK(e)
    /\ TrimSpace(u) # <<>>
    /\ ~Contains(u, " ")
    /\ Len(p) >= MinPasswordLen

UniqueAccounts ==
    \A u1, u2 \in users :
        (u1.email = u2.email \/ u1.username = u2.username) => u1 = u2

(* C15 as stated: no two users share an email or a username; Register with a  *)
(* registered email fails with "email already registered", Register with a     *)
(* free email and a taken username fails with "username already taken",        *)
(* whatever the other arguments are, and neither changes the users.            *)
C15_AsStated ==
    /\ UniqueAccounts
    /\ \A e \in EmailInputs, u \in UsernameInputs, p \in PasswordInputs :
          LET r == RegisterUserExec(DB, e, u, p)
              emailTaken == \E x \in users : x.email = e
              nameTaken == \E x \in users : x.username = u
          IN  /\ emailTaken => (r.err = ErrEmailTaken /\ r.db = DB)
              /\ (~emailTaken /\ nameTaken) => (r.err = ErrUsernameTaken /\ r.db = DB)

(* C15, amended: no two users share an email or a username; Register with a   *)
(* well-formed email, a non-empty username without spaces and a password of    *)
(* at least 6 characters fails with "email already registered" when the email  *)
(* is registered and with "username already taken" when the email is free and  *)
(* the username is taken; a registration that is not well formed fails with    *)
(* its validation error instead; no failure adds or changes a user row.        *)
C15_UniqueAccounts ==
    /\ UniqueAccounts
    /\ \A e \in EmailInputs, u \in UsernameInputs, p \in PasswordInputs :
          LET r == RegisterUserExec(DB, e, u, p)
              emailTaken == \E x \in users : x.email = e
              nameTaken == \E x \in users : x.username = u
          IN  /\ (WellFormedRegistration(e, u, p) /\ emailTaken)
                     => (r.err = ErrEmailTaken /\ r.db = DB)
              /\ (WellFormedRegistration(e, u, p) /\ ~emailTaken /\ nameTaken)
                     => (r.err = ErrUsernameTaken /\ r.db = DB)
              /\ ~WellFormedRegistration(e, u, p)
                     => /\ r.err \in {ErrInvalidEmail, ErrUsernameEmpty,
                                      ErrUsernameSpaces, ErrPasswordShort}
                        /\ r.db = DB
              /\ r.err # Nil => r.db = DB

(* A third user has registered, and a second registration of the same email   *)
(* and one of the same username with another email are refused.                *)
C15_Witness ==
    \E x \in users :
        /\ x.id = 3
        /\ RegisterUserExec(DB, x.email, <<"dave">>, Secret).err = ErrEmailTaken
        /\ RegisterUserExec(DB, <<"d", "@", "x.com">>, x.username, Secret).err
               = ErrUsernameTaken

WithoutEmail(d, e) == [d EXCEPT !.users = {u \in @ : u.email # e}]

(* C16: a failed Authenticate returns the same thing, user id 0 and "invalid  *)
(* email or password", whether the email is unknown or the password is wrong:  *)
(* the result, and the page LoginHandler renders from it, are those of the     *)
(* same call on the store without the user of that email.                      *)
C16_UniformLoginFailure ==
    \A e \in EmailInputs, p \in PasswordInputs :
        LET r == AuthenticateUser(DB, e, p)
            r0 == AuthenticateUser(WithoutEmail(DB, e), e, p)
        IN  /\ r0 = [userID |-> 0, err |-> ErrInvalidCredentials]
            /\ r.err # Nil =>
                   /\ r = r0
                   /\ LoginFailurePage(DB, e, p) = LoginFailurePage(WithoutEmail(DB, e), e, p)

(* One login has failed on a registered email with a wrong password and one   *)
(* on an email nobody has registered, with the same answer. *)
C16_Witness ==
    \E w1, w2 \in Workers :
        /\ pc[w1] = "done" /\ req[w1].op = "login"
        /\ pc[w2] = "done" /\ req[w2].op = "login"
        /\ \E u \in users : u.email = req[w1].email
        /\ \A u \in users : u.email # req[w2].email
        /\ res[w1].err = ErrInvalidCredentials
        /\ res[w2] = res[w1]

-----------------------------------------------------------------------------
(* Properties of input validation *)

(* C17: a call that rejects its input as invalid returns its validation error *)
(* and the store it was given, every table and every id sequence as before:    *)
(* Register with a malformed email, an empty or space-containing username or a  *)
(* password shorter than 6; CreatePost with a non-positive author or a title or *)
(* content empty after trimming; CreateComment with a non-positive id or empty  *)
(* trimmed content; SetReaction with a non-positive id or a value outside       *)
(* {-1, 0, 1}.                                                                  *)
C17_InvalidInputChangesNothing ==
    /\ \A e \in EmailInputs, u \in UsernameInputs, p \in PasswordInputs :
          ~WellFormedRegistration(e, u, p) =>
              LET r == RegisterUserExec(DB, e, u, p)
              IN  /\ r.err \in {ErrInvalidEmail, ErrUsernameEmpty, ErrUsernameSpaces,
                                ErrPasswordShort}
                  /\ r.db = DB
    /\ \A a \in AuthorInputs, t \in TitleInputs, c \in ContentInputs, n \in CategoryInputs :
          (a <= 0 \/ TrimSpace(t) = <<>> \/ TrimSpace(c) = <<>>) =>
              CreatePostTx(DB, a, t, c, n) = [db |-> DB, id |-> 0, err |-> ErrInvalidPost]
    /\ \A p \in PostIDInputs, a \in CommenterInputs, c \in CommentInputs :
          (p <= 0 \/ a <= 0 \/ TrimSpace(c) = <<>>) =>
              CreateCommentExec(DB, p, a, c) =
                  [db |-> DB, id |-> 0, err |-> ErrInvalidComment]
    /\ \A u \in UserIDInputs, v \in ReactionInputs :
          /\ \A t \in PostIDInputs :
                (u <= 0 \/ t <= 0 \/ v \notin {-1, 0, 1}) =>
                    LET r == TogglePostReactionExec(DB, u, t, v)
                    IN  r.err \in {ErrInvalidIDs, ErrInvalidReaction} /\ r.db = DB
          /\ \A t \in CommentIDInputs :
                (u <= 0 \/ t <= 0 \/ v \notin {-1, 0, 1}) =>
                    LET r == ToggleCommentReactionExec(DB, u, t, v)
                    IN  r.err \in {ErrInvalidIDs, ErrInvalidReaction} /\ r.db = DB

(* A user has registered, posted, been commented on and liked, and invalid    *)
(* calls of all four kinds are refused on that store.                          *)
C17_Witness ==
    /\ \E x \in users : x.id = 3
    /\ posts # {} /\ comments # {} /\ post_likes # {}
    /\ RegisterUserExec(DB, <<"c", "x.com">>, <<"carol">>, Secret).err = ErrInvalidEmail
    /\ CreatePostTx(DB, 1, <<" ">>, <<"World">>, <<>>).err = ErrInvalidPost
    /\ CreateCommentExec(DB, 1, 2, <<" ">>).err = ErrInvalidComment
    /\ TogglePostReactionExec(DB, 1, 1, 2).err = ErrInvalidReaction

-----------------------------------------------------------------------------
(* Properties of post creation *)

(* C18: CreatePost by an existing author with a title and a content that are  *)
(* not empty after trimming succeeds, and GetPost of the id it returns then    *)
(* yields a post with that author, the trimmed title and the trimmed content,  *)
(* and with no category when no category name was given.                       *)
C18_CreateThenGetPost ==
    \A a \in AuthorInputs, t \in TitleInputs, c \in ContentInputs, n \in CategoryInputs :
        LET r == CreatePostTx(DB, a, t, c, n)
            got == QueryPostByID(r.db, r.id)
        IN  /\ (a \in IDs(users) /\ TrimSpace(t) # <<>> /\ TrimSpace(c) # <<>>)
                   => r.err = Nil
            /\ r.err = Nil =>
                   /\ got.ok
                   /\ got.post.author_id = a
                   /\ got.post.title = TrimSpace(t)
                   /\ got.post.content = TrimSpace(c)
                   /\ n = <<>> => got.Categories = {}

(* A post given as " Hello " without categories is stored and read back as    *)
(* "Hello" with an empty category list. *)
C18_Witness ==
    \E x \in posts :
        /\ x.author_id = 1 /\ x.title = <<"Hello">> /\ x.content = <<"World">>
        /\ GetPostByID(x.id).ok
        /\ GetPostByID(x.id).post = x
        /\ GetPostByID(x.id).Categories = {}

-----------------------------------------------------------------------------
(* Properties of transactions *)

Outcome(r) == [db |-> r.db, err |-> r.err]

(* C19: whichever statement of CreatePost fails (BeginTx, the post INSERT, a  *)
(* category lookup or creation, a junction INSERT, the Commit), the call       *)
(* returns an error and the store is the one before the call: no post row, no  *)
(* junction row and no category row of the call persists. Whichever statement  *)
(* of DeletePost or DeleteComment fails, no row is removed. Without a failing   *)
(* statement the three calls do what CreatePost, DeletePost and DeleteComment   *)
(* do.                                                                          *)
C19_AllOrNothing ==
    /\ \A a \in AuthorInputs, t \in TitleInputs, c \in ContentInputs,
          n \in CategoryInputs, f \in FaultInputs :
          LET r == CreatePostTxWithFault(DB, a, t, c, n, f)
          IN  /\ f = 0 => [db |-> r.db, id |-> r.id, err |-> r.err]
                              = CreatePostTx(DB, a, t, c, n)
              /\ r.err # Nil => r.db = DB
              /\ (f \in 1 .. 3 /\ CreatePostTx(DB, a, t, c, n).err = Nil) => r.err # Nil
    /\ \A p \in PostIDInputs, u \in UserIDInputs, f \in FaultInputs :
          LET r == DeletePostTxWithFault(DB, p, u, f)
          IN  /\ f = 0 => Outcome(r) = DeletePostTx(DB, p, u)
              /\ r.err # Nil => r.db = DB
              /\ (f # 0 /\ DeletePostTx(DB, p, u).err = Nil) => r.err # Nil
    /\ \A c \in CommentIDInputs, u \in UserIDInputs, f \in FaultInputs :
          LET r == DeleteCommentTxWithFault(DB, c, u, f)
          IN  /\ f = 0 => Outcome(r) = DeleteCommentTx(DB, c, u)
              /\ r.err # Nil => r.db = DB
              /\ (f \in 1 .. 5 /\ DeleteCommentTx(DB, c, u).err = Nil) => r.err # Nil

(* A post with a category link, a comment, a reaction and a comment reaction: *)
(* its deletion fails at the last DELETE, a comment deletion at its Commit and  *)
(* a post creation at the junction row of a new category, each after it had     *)
(* written, and the store is unchanged.                                         *)
C19_Witness ==
    \E x \in posts, c \in comments :
        /\ c.post_id = x.id
        /\ \E r \in post_likes : r.post_id = x.id
        /\ \E r \in comment_likes : r.comment_id = c.id
        /\ \E r \in post_categories : r.post_id = x.id
        /\ LET r == DeletePostTxWithFault(DB, x.id, x.author_id, 7)
           IN  r.err = ErrStorage /\ r.db = DB /\ r.work.comments = {}
        /\ LET r == DeleteCommentTxWithFault(DB, c.id, c.author_id, 5)
           IN  r.err = ErrStorage /\ r.db = DB /\ r.work.comments = {}
        /\ LET r == CreatePostTxWithFault(DB, 1, <<"Hello">>, <<"World">>,
                                          << <<"news">> >>, 4)
           IN  /\ r.err = ErrStorage /\ r.db = DB
               /\ r.work.posts # posts /\ r.work.categories # categories

-----------------------------------------------------------------------------
(* Properties of category association *)

RawNames(n) == {n[i] : i \in DOMAIN n}
TrimmedNames(n) == {TrimSpace(n[i]) : i \in DOMAIN n} \ {<<>>}

LinkedCategories(d, postID) ==
    {x \in d.categories :
        [post_id |-> postID, category_id |-> x.id] \in d.post_categories}

LinksOf(d, postID) == {r \in d.post_categories : r.post_id = postID}

CategoriesFor(d, r, names) ==
    /\ {x.name : x \in LinkedCategories(r.db, r.id)} = names
    /\ Cardinality(LinksOf(r.db, r.id)) = Cardinality(names)
    /\ \A x, y \in r.db.categories : x.name = y.name => x = y
    /\ d.categories \subseteq r.db.categories
    /\ {x.name : x \in r.db.categories} = {x.name : x \in d.categories} \cup names

(* C20 as stated: after a successful CreatePost with names N the post is      *)
(* linked to exactly the categories whose names are the distinct names in N,   *)
(* matched exactly, existing ones reused and missing ones created once.        *)
C20_AsStated ==
    \A a \in AuthorInputs, t \in TitleInputs, c \in ContentInputs, n \in CategoryInputs :
        LET r == CreatePostTx(DB, a, t, c, n)
        IN  r.err = Nil => CategoriesFor(DB, r, RawNames(n))

(* C20, amended: CreatePost trims every name and skips the names that are     *)
(* empty after trimming; after a successful call the post is linked to exactly *)
(* the categories whose names are the distinct trimmed names, one link each; a  *)
(* trimmed name that is a category already reuses its row, any other creates    *)
(* one row, and no two rows have the same name; the match of trimmed names is   *)
(* exact and case-sensitive: "tech" and "Tech" are two categories.              *)
C20_CategoriesLinked ==
    \A a \in AuthorInputs, t \in TitleInputs, c \in ContentInputs, n \in CategoryInputs :
        LET r == CreatePostTx(DB, a, t, c, n)
            linked == LinkedCategories(r.db, r.id)
        IN  r.err = Nil =>
              /\ CategoriesFor(DB, r, TrimmedNames(n))
              /\ ({<<"tech">>, <<"Tech">>} \subseteq TrimmedNames(n)) =>
                     \E x, y \in linked :
                         x.name = <<"tech">> /\ y.name = <<"Tech">> /\ x.id # y.id

(* A post was created with " tech", "General", " ", "tech" and "Tech": it has *)
(* three links, to the seeded General and to two new categories.               *)
C20_Witness ==
    \E x \in posts :
        /\ {c.name : c \in LinkedCategories(DB, x.id)} = {General, <<"tech">>, <<"Tech">>}
        /\ Cardinality(LinksOf(DB, x.id)) = 3
        /\ Cardinality(categories) = Cardinality(SeedCategories) + 2
        /\ SeedCategories \subseteq categories

-----------------------------------------------------------------------------
(* Properties of reads running beside writes *)

(* C21: a reader running beside CreatePost, DeletePost or DeleteComment      *)
(* never observes a partially applied write: a post it is given carries the   *)
(* category links the post was created with, which are the links the store    *)
(* held when the post's row was read.                                          *)
C21_NoTornRead ==
    \A w \in Workers :
        (pc[w] = "done" /\ req[w].op = "get_post" /\ res[w].err = Nil) =>
            res[w].Categories = req[w].linked

-----------------------------------------------------------------------------
(* Properties of comments *)

AuthorOfPost(d, p) == (CHOOSE x \in d.posts : x.id = p).author_id
AuthorOfComment(d, c) == (CHOOSE x \in d.comments : x.id = c).author_id
AuthorOfPostOfComment(d, c) ==
    (CHOOSE p \in d.posts : p.id = (CHOOSE x \in d.comments : x.id = c).post_id).author_id
WithoutComment(d, c) ==
    [d EXCEPT !.comments = {x \in @ : x.id # c},
              !.comment_likes = {x \in @ : x.comment_id # c}]

(* C22 as stated: DeleteComment(c, u) fails with NotFound whenever comment c  *)
(* does not exist and with Forbidden whenever u is not its author, changing    *)
(* nothing, and otherwise removes exactly c and the comment_likes rows of c.   *)
C22_AsStated ==
    \A c \in CommentIDInputs, u \in UserIDInputs :
        LET r == DeleteCommentTx(DB, c, u)
        IN  IF c \notin IDs(comments)
            THEN r.err = ErrCommentNotFound /\ r.db = DB
            ELSE IF AuthorOfComment(DB, c) # u
            THEN r.err = ErrNotYourComment /\ r.db = DB
            ELSE r.err = Nil /\ r.db = WithoutComment(DB, c)

(* C22: for positive ids, DeleteComment(c, u) succeeds only when u is the      *)
(* author of comment c, and then removes exactly c and the comment_likes rows  *)
(* of c; it fails with Forbidden when u is not the comment's author, the       *)
(* author of the comment's post included, and with NotFound when c does not    *)
(* exist; with a non-positive id it fails with the invalid-id error. Every     *)
(* failure leaves the store as it was.                                          *)
C22_DeleteCommentChecked ==
    \A c \in CommentIDInputs, u \in UserIDInputs :
        LET r == DeleteCommentTx(DB, c, u)
        IN  IF c <= 0 \/ u <= 0
            THEN r.err = ErrInvalidDeleteComment /\ r.db = DB
            ELSE IF c \notin IDs(comments)
            THEN r.err = ErrCommentNotFound /\ r.db = DB
            ELSE IF AuthorOfComment(DB, c) # u
            THEN r.err = ErrNotYourComment /\ r.db = DB
            ELSE r.err = Nil /\ r.db = WithoutComment(DB, c)

(* A comment that carries a reaction, refused to the author of its post and    *)
(* deleted with its reaction for its own author.                                *)
C22_Witness ==
    \E c \in IDs(comments), u \in UserIDInputs :
        /\ \E x \in comment_likes : x.comment_id = c
        /\ u = AuthorOfPostOfComment(DB, c)
        /\ u # AuthorOfComment(DB, c)
        /\ DeleteCommentTx(DB, c, u).err = ErrNotYourComment
        /\ DeleteCommentTx(DB, c, AuthorOfComment(DB, c)).err = Nil
        /\ DeleteCommentTx(DB, c, AuthorOfComment(DB, c)).db.comment_likes # comment_likes

(* C23: CreateComment(postID, authorID, content) creates a comment only when  *)
(* content is non-empty after trimming and postID and authorID are an          *)
(* existing post and an existing user; otherwise, a positive postID of a post  *)
(* that is not there included, it fails with InvalidInput and creates no       *)
(* comment row.                                                                 *)
C23_CreateCommentValidates ==
    \A p \in PostIDInputs, a \in CommenterInputs, c \in CommentInputs :
        LET r == CreateCommentExec(DB, p, a, c)
        IN  IF TrimSpace(c) # <<>> /\ p \in IDs(posts) /\ a \in IDs(users)
            THEN /\ r.err = Nil
                 /\ r.db.comments = comments \cup
                        {[id |-> r.id, post_id |-> p, author_id |-> a,
                          content |-> TrimSpace(c), created_at |-> now]}
                 /\ r.id \notin IDs(comments)
            ELSE r.err = ErrInvalidComment /\ r.db = DB

-----------------------------------------------------------------------------
(* Properties of the list calls *)

Listed(w, op) == pc[w] = "done" /\ req[w].op = op
Elements(l) == {l[i] : i \in DOMAIN l}

(* C24: ListComments(p) returns only comments of post p, each at most once,   *)
(* a comment created strictly earlier before one created later, never more    *)
(* than 100 of them, and all of them when p has at most 100 comments.          *)
C24_ListComments ==
    \A w \in Workers :
        Listed(w, "list_comments") =>
            LET l == res[w].list
                of == {c \in comments : c.post_id = req[w].target}
            IN  /\ Elements(l) \subseteq of
                /\ \A i, j \in DOMAIN l : i # j => l[i].id # l[j].id
                /\ \A i, j \in DOMAIN l :
                       l[i].created_at < l[j].created_at => i < j
                /\ Len(l) <= 100
                /\ Cardinality(of) <= 100 => Elements(l) = of

(* The comments of a post that has more than 100 of them were listed, and    *)
(* 100 came back while another post has a comment too.                        *)
C24_Witness ==
    \E w \in Workers :
        /\ Listed(w, "list_comments")
        /\ Cardinality({c \in comments : c.post_id = req[w].target}) > 100
        /\ Len(res[w].list) = 100
        /\ \E c \in comments : c.post_id # req[w].target

(* The posts that pass every filter of opt that is given. *)
NamesLinkedTo(p) ==
    {c.name : c \in {c \in categories :
        \E l \in post_categories : l.post_id = p.id /\ l.category_id = c.id}}
Matching(opt) ==
    {p \in posts :
        /\ opt.CategoryName # <<>> => opt.CategoryName \in NamesLinkedTo(p)
        /\ opt.AuthorID > 0 => p.author_id = opt.AuthorID
        /\ opt.LikedByUser > 0 =>
               [user_id |-> opt.LikedByUser, post_id |-> p.id, reaction |-> 1] \in post_likes}
InOrder(opt) ==
    {IF opt.OrderDesc THEN Reverse(o) ELSE o : o \in OrderedByCreatedAt(Matching(opt))}
PostsOf(l) == [i \in DOMAIN l |-> l[i].post]
IsPage(l, opt, lim, off) ==
    \E o \in InOrder(opt) : PostsOf(l) = SubSeq(o, off + 1, Min(Len(o), off + lim))

(* C25 as stated: the effective limit is the requested limit clamped into     *)
(* (0, 100], a limit above 100 counting as 100, and 20 when no positive limit  *)
(* is given; a negative offset counts as 0; the result is the slice            *)
(* [offset, offset + limit) of the ordered matching posts.                      *)
C25_AsStated ==
    \A w \in Workers :
        Listed(w, "list_posts") =>
            LET opt == req[w].opt
                lim == IF opt.Limit <= 0 THEN 20
                       ELSE IF opt.Limit > 100 THEN 100 ELSE opt.Limit
                off == IF opt.Offset < 0 THEN 0 ELSE opt.Offset
            IN  Len(res[w].list) <= 100 /\ IsPage(res[w].list, opt, lim, off)

(* C25: the effective limit of ListPosts is the requested limit when it lies  *)
(* in 1 .. 100 and 20 otherwise, a limit above 100 included; a negative        *)
(* offset counts as 0; the result is the slice [offset, offset + limit) of     *)
(* the ordered matching posts and never has more than 100 posts.                *)
C25_ListPostsPage ==
    \A w \in Workers :
        Listed(w, "list_posts") =>
            LET opt == req[w].opt
                lim == IF opt.Limit <= 0 \/ opt.Limit > 100 THEN 20 ELSE opt.Limit
                off == IF opt.Offset < 0 THEN 0 ELSE opt.Offset
            IN  Len(res[w].list) <= 100 /\ IsPage(res[w].list, opt, lim, off)

(* More than 100 posts match, a limit above 100 and a negative offset were    *)
(* given, and the 20 first posts came back.                                     *)
C25_Witness ==
    \E w \in Workers :
        /\ Listed(w, "list_posts")
        /\ req[w].opt.Limit > 100
        /\ req[w].opt.Offset < 0
        /\ Cardinality(Matching(req[w].opt)) > 100
        /\ Len(res[w].list) = 20

(* C26: ListPosts returns, up to the limit, exactly the posts that pass all   *)
(* the given filters together, each of them once even when it is linked to    *)
(* several categories, and each result carries all the category names of its  *)
(* post.                                                                        *)
C26_ListPostsFilters ==
    \A w \in Workers :
        Listed(w, "list_posts") =>
            LET opt == req[w].opt
                l == res[w].list
                lim == IF opt.Limit <= 0 \/ opt.Limit > 100 THEN 20 ELSE opt.Limit
                off == IF opt.Offset < 0 THEN 0 ELSE opt.Offset
                m == Matching(opt)
                left == IF Cardinality(m) > off THEN Cardinality(m) - off ELSE 0
            IN  /\ \A i \in DOMAIN l : l[i].post \in m
                /\ \A i, j \in DOMAIN l : i # j => l[i].post.id # l[j].post.id
                /\ Len(l) = Min(lim, left)
                /\ \A i \in DOMAIN l : l[i].Categories = NamesLinkedTo(l[i].post)

(* The three filters were given together, some posts pass them and others     *)
(* fail each one, and a post linked to two categories came back once with     *)
(* both names.                                                                  *)
C26_Witness ==
    \E w \in Workers :
        /\ Listed(w, "list_posts")
        /\ req[w].opt.CategoryName # <<>>
        /\ req[w].opt.AuthorID > 0
        /\ req[w].opt.LikedByUser > 0
        /\ \E i \in DOMAIN res[w].list :
               Cardinality(res[w].list[i].Categories) = 2
        /\ \E p \in posts : req[w].opt.CategoryName \notin NamesLinkedTo(p)
        /\ \E p \in posts : p.author_id # req[w].opt.AuthorID
        /\ \E p \in posts :
               /\ req[w].opt.CategoryName \in NamesLinkedTo(p)
               /\ p.author_id = req[w].opt.AuthorID
               /\ p \notin Matching(req[w].opt)

(* C27: whatever SetReaction, CreatePost and DeletePost calls came before, a  *)
(* post p is among the posts that ListPosts(likedByUser = u) returns exactly  *)
(* when p exists and the stored reaction of u on p is +1; a post u disliked,  *)
(* or liked and then set to neutral or to dislike, is not among them.          *)
C27_LikedPosts ==
    \A u \in IDs(users), p \in PostIDInputs :
        /\ \A l \in GetLikedPostsByUserID(u) :
               (\E i \in DOMAIN l : l[i].post.id = p) <=>
                   /\ p \in IDs(posts)
                   /\ [user_id |-> u, post_id |-> p, reaction |-> 1] \in post_likes
        /\ \A l \in ListPostsLikedByUser(u, 0, 0) :
               (\E i \in DOMAIN l : l[i].post.id = p) <=>
                   /\ p \in IDs(posts)
                   /\ [user_id |-> u, post_id |-> p, reaction |-> 1] \in post_likes

(* A user was shown a post among the posts they like and has disliked it      *)
(* since: the post is still there, liked by the other user and on that user's  *)
(* list, and no longer on the first user's.                                     *)
C27_Witness ==
    \E w \in Workers, p \in IDs(posts), o \in IDs(users) :
        /\ Listed(w, "liked_posts")
        /\ \E i \in DOMAIN res[w].list : res[w].list[i].post.id = p
        /\ [user_id |-> req[w].userID, post_id |-> p, reaction |-> -1] \in post_likes
        /\ [user_id |-> o, post_id |-> p, reaction |-> 1] \in post_likes
        /\ \A l \in GetLikedPostsByUserID(req[w].userID) : l = <<>>
        /\ \A l \in GetLikedPostsByUserID(o) : l # <<>>

-----------------------------------------------------------------------------
(* Properties of the schema *)

(* C28: in every reachable state, whatever the order of the CreatePost,       *)
(* CreateComment, SetReaction, DeletePost and DeleteComment calls, every       *)
(* post's author is a user, every comment's post and author exist, every       *)
(* post_likes row has its post and user, every comment_likes row its comment   *)
(* and user, and every post_categories row its post and category.               *)
C28_ReferentialIntegrity ==
    /\ \A p \in posts : p.author_id \in IDs(users)
    /\ \A c \in comments : c.post_id \in IDs(posts) /\ c.author_id \in IDs(users)
    /\ \A r \in post_likes : r.post_id \in IDs(posts) /\ r.user_id \in IDs(users)
    /\ \A r \in comment_likes : r.comment_id \in IDs(comments) /\ r.user_id \in IDs(users)
    /\ \A r \in post_categories :
           r.post_id \in IDs(posts) /\ r.category_id \in IDs(categories)

(* Post 1 was created and deleted; a comment on it, a reaction to it and a    *)
(* reaction to a comment that is not there are now refused by the store.       *)
C28_Witness ==
    /\ seq.posts >= 1
    /\ 1 \notin IDs(posts)
    /\ CreateCommentExec(DB, 1, 2, <<"Nice">>).err = ErrForeignKey
    /\ TogglePostReactionExec(DB, 1, 1, 1).err = ErrForeignKey
    /\ ToggleCommentReactionExec(DB, 1, 1, -1).err = ErrForeignKey

-----------------------------------------------------------------------------
(* Properties of the protected routes *)

Accepted(k) == \E x \in sessions : x.token = k /\ ~(now > x.expires_at)
Content(d) ==
    <<d.posts, d.post_categories, d.categories, d.comments, d.post_likes, d.comment_likes>>
EndedAs(k, how) == [token |-> k, how |-> how] \in ended

(* C29: a request to a mutation entry point changes posts, comments or        *)
(* reactions only when its token is one that Validate accepts, and then the    *)
(* handler acts as the user the token was issued to: the rows it adds are      *)
(* that user's and the rows it removes are what that user's call removes. A    *)
(* request with no token or with an unknown, expired, revoked or replaced      *)
(* token changes no content and is redirected to the login page.                *)
C29_RequireAuth ==
    \A k \in CookieInputs, q \in RequestInputs :
        LET r == RequireAuth(DB, now, k, q)
        IN  IF k # NoCookie /\ Accepted(k)
            THEN /\ r = Route(DB, tokens[k], q)
                 /\ \A x \in r.db.posts \ posts : x.author_id = tokens[k]
                 /\ \A x \in r.db.comments \ comments : x.author_id = tokens[k]
                 /\ \A x \in r.db.post_likes \ post_likes : x.user_id = tokens[k]
                 /\ \A x \in r.db.comment_likes \ comment_likes : x.user_id = tokens[k]
                 /\ \A x \in posts \ r.db.posts : x.author_id = tokens[k]
                 /\ \A x \in comments \ r.db.comments :
                        x.author_id = tokens[k] \/ x.post_id \notin IDs(r.db.posts)
            ELSE /\ Content(r.db) = Content(DB)
                 /\ r.resp = Redirect("/login")

(* Requests with the live token of user 1 have written a post, a comment and  *)
(* a reaction; token 1 was replaced, token 2 has been revoked or has expired,  *)
(* and a request with either of them, with no cookie or with a token never     *)
(* issued would now be sent to the login page while the live token's request   *)
(* deletes the post.                                                            *)
C29_Witness ==
    /\ Accepted(3)
    /\ EndedAs(1, "replaced")
    /\ EndedAs(2, "revoked") \/ EndedAs(2, "expired")
    /\ \E x \in posts : x.author_id = 1
    /\ \E x \in comments : x.author_id = 1
    /\ \E x \in post_likes : x.user_id = 1
    /\ \E q \in RequestInputs :
           /\ q.op = "delete_post"
           /\ RequireAuth(DB, now, 3, q).db.posts # posts
           /\ \A k \in {NoCookie, 0, 1, 2} :
                  RequireAuth(DB, now, k, q).resp = Redirect("/login")

DeletePostRequest(p) ==
    [op |-> "delete_post", title |-> <<>>, content |-> <<>>, categories |-> <<>>,
     post_id |-> p, comment_id |-> 0, action |-> ""]
DeleteCommentRequest(c) ==
    [op |-> "delete_comment", title |-> <<>>, content |-> <<>>, categories |-> <<>>,
     post_id |-> 1, comment_id |-> c, action |-> ""]

(* C30: a user who is not the author learns nothing from a refused delete:    *)
(* what DeletePost, DeleteComment and the delete handlers return for a post    *)
(* or comment that exists and is someone else's is what they return for an id  *)
(* that does not exist.                                                         *)
C30_RefusedDeleteUniform ==
    \A u \in IDs(users) :
        /\ \A p \in IDs(posts), absent \in (1 .. MaxPosts + 1) \ IDs(posts) :
               AuthorOfPost(DB, p) # u =>
                   /\ DeletePostTx(DB, p, u).err = DeletePostTx(DB, absent, u).err
                   /\ DeletePostHandler(DB, u, DeletePostRequest(p)).resp
                          = DeletePostHandler(DB, u, DeletePostRequest(absent)).resp
        /\ \A c \in IDs(comments), absent \in (1 .. MaxComments + 1) \ IDs(comments) :
               AuthorOfComment(DB, c) # u =>
                   /\ DeleteCommentTx(DB, c, u).err = DeleteCommentTx(DB, absent, u).err
                   /\ DeleteCommentHandler(DB, u, DeleteCommentRequest(c)).resp
                          = DeleteCommentHandler(DB, u, DeleteCommentRequest(absent)).resp

(* C31: a GET request to /logout that carries the token of a live session       *)
(* removes the session row of that token, and any later request with the token  *)
(* is treated as unauthenticated.                                                *)
C31_GetLogsOut ==
    \A k \in TokenInputs :
        Accepted(k) =>
            LET r == LogoutHandler(DB, "GET", k)
            IN  /\ SessionRows(r.db, k) = {}
                /\ \A q \in RequestInputs :
                       RequireAuth(r.db, now, k, q).resp = Redirect("/login")

-----------------------------------------------------------------------------
(* Properties of the periodic cleanup *)

(* C32: CleanExpiredSessions removes only session rows that Validate already    *)
(* rejects as expired, and for every token and every moment from the cleanup    *)
(* on, Validate succeeds, and returns the same user, with the cleanup run as     *)
(* without it.                                                                   *)
C32_CleanupNotCritical ==
    \A z \in ZoneInputs :
        LET c == CleanExpiredSessionsExec(DB, now, z)
        IN  /\ \A r \in sessions \ c.db.sessions :
                   ValidateSessionExec(DB, r.token, now).err = ErrSessionExpired
            /\ \A k \in TokenInputs, t \in now .. MaxTime :
                   LET a == ValidateSessionExec(DB, k, t)
                       b == ValidateSessionExec(c.db, k, t)
                   IN  (a.err = Nil) = (b.err = Nil) /\ a.userID = b.userID

-----------------------------------------------------------------------------
(* Properties of concurrent registration *)

Registered(w) == pc[w] = "done" /\ req[w].op = "register"

(* C33: of two Register calls that ran concurrently with the same email, free   *)
(* when they began, exactly one creates a user and the other fails with         *)
(* "email already registered"; with different emails and the same free          *)
(* username the other fails with "username already taken"; with both the same   *)
(* the other fails with either of the two; and no two users ever share an        *)
(* email or a username.                                                          *)
C33_ConcurrentRegister ==
    /\ UniqueAccounts
    /\ \A w1, w2 \in Workers :
          (/\ w1 # w2
           /\ Registered(w1) /\ Registered(w2)
           /\ res[w1].raced /\ res[w2].raced
           /\ req[w1].emailFree /\ req[w2].emailFree
           /\ req[w1].usernameFree /\ req[w2].usernameFree) =>
              /\ (req[w1].email = req[w2].email /\ req[w1].username # req[w2].username) =>
                     {res[w1].err, res[w2].err} = {Nil, ErrEmailTaken}
              /\ (req[w1].email # req[w2].email /\ req[w1].username = req[w2].username) =>
                     {res[w1].err, res[w2].err} = {Nil, ErrUsernameTaken}
              /\ (req[w1].email = req[w2].email /\ req[w1].username = req[w2].username) =>
                     \/ {res[w1].err, res[w2].err} = {Nil, ErrEmailTaken}
                     \/ {res[w1].err, res[w2].err} = {Nil, ErrUsernameTaken}

-----------------------------------------------------------------------------
(* Properties of registration followed by login *)

(* C34 as stated: Authenticate(e, p) succeeds exactly for the pairs of email    *)
(* and password of the successful Register calls, and returns the id of that     *)
(* call's user: a successful Register(e, u, p) makes Authenticate(e, p) return   *)
(* the new user's id and changes the result of Authenticate for no other pair,   *)
(* and a Register that fails changes none.                                       *)
C34_AsStated ==
    \A e \in NewEmailInputs, u \in NewUsernameInputs, p \in RegisterPasswordInputs :
        LET r == RegisterUserExec(DB, e, u, p)
        IN  IF r.err = Nil
            THEN \A e2 \in LoginEmailInputs, p2 \in LoginPasswordInputs :
                     AuthenticateUser(r.db, e2, p2) =
                         IF e2 = e /\ p2 = p THEN [userID |-> r.db.seq.users, err |-> Nil]
                         ELSE AuthenticateUser(DB, e2, p2)
            ELSE r.db = DB

(* C34, amended: Authenticate(e, p) succeeds exactly when a successful Register *)
(* call used email e with a password that agrees with p on its first 72 bytes,   *)
(* and returns the id of that call's user: a successful Register(e, u, p) makes  *)
(* Authenticate(e, p2) return the new user's id for every p2 with the first 72   *)
(* bytes of p and changes the result of Authenticate for no other pair; a         *)
(* Register that fails changes nothing; Authenticate reads the store only.        *)
C34_AuthenticateMatchesRegister ==
    \A e \in NewEmailInputs, u \in NewUsernameInputs, p \in RegisterPasswordInputs :
        LET r == RegisterUserExec(DB, e, u, p)
        IN  IF r.err = Nil
            THEN \A e2 \in LoginEmailInputs, p2 \in LoginPasswordInputs :
                     AuthenticateUser(r.db, e2, p2) =
                         IF e2 = e /\ BlowfishKey(p2) = BlowfishKey(p)
                         THEN [userID |-> r.db.seq.users, err |-> Nil]
                         ELSE AuthenticateUser(DB, e2, p2)
            ELSE r.db = DB

(* A user registered with a password of 72 bytes: that password and the one    *)
(* a byte longer log in as that user, a shorter one and another user's do not,  *)
(* and the users registered before still log in with their own passwords.       *)
C34_Witness ==
    \E x \in users :
        /\ x.id > 2
        /\ x.password_hash = GenerateFromPassword(Password72)
        /\ AuthenticateUser(DB, x.email, Password72) = [userID |-> x.id, err |-> Nil]
        /\ AuthenticateUser(DB, x.email, Password73) = [userID |-> x.id, err |-> Nil]
        /\ AuthenticateUser(DB, x.email, Secret).err = ErrInvalidCredentials
        /\ AuthenticateUser(DB, x.email, Hunter).err = ErrInvalidCredentials
        /\ AuthenticateUser(DB, <<"a", "@", "x.com">>, Secret) = [userID |-> 1, err |-> Nil]
        /\ AuthenticateUser(DB, <<"a", "@", "x.com">>, Password72).err = ErrInvalidCredentials

-----------------------------------------------------------------------------
(* Properties of the detail views *)

Reacted(rows, v, value) == \E x \in rows : x.user_id = v /\ x.reaction = value
Valued(rows, value) == Cardinality({x \in rows : x.reaction = value})
PostLikesOf(p) == {x \in post_likes : x.post_id = p}
CommentLikesOf(c) == {x \in comment_likes : x.comment_id = c}

(* C35: with no writer at work, the detail view of a post or a comment for     *)
(* viewer v has UserLiked exactly when v's stored reaction on it is +1 and       *)
(* UserDisliked exactly when it is -1, never both; LikesCount and DislikesCount  *)
(* are the numbers of stored +1 and -1 rows of the target, 0 and 0 when it has   *)
(* none; CommentsCount is the number of comments of the post; for the anonymous  *)
(* viewer both flags are false. The list views carry the same details.           *)
C35_DetailView ==
    \A v \in ViewerInputs :
        /\ \A p \in {1, 2} :
               LET r == GetPostWithDetailsExec(DB, p, v)
               IN  IF p \notin IDs(posts) THEN r.err = ErrNoRows
                   ELSE /\ r.err = Nil
                        /\ r.detail.UserLiked = Reacted(PostLikesOf(p), v, 1)
                        /\ r.detail.UserDisliked = Reacted(PostLikesOf(p), v, -1)
                        /\ ~(r.detail.UserLiked /\ r.detail.UserDisliked)
                        /\ r.detail.LikesCount = Valued(PostLikesOf(p), 1)
                        /\ r.detail.DislikesCount = Valued(PostLikesOf(p), -1)
                        /\ r.detail.CommentsCount =
                               Cardinality({c \in comments : c.post_id = p})
                        /\ v = 0 => (~r.detail.UserLiked /\ ~r.detail.UserDisliked)
        /\ \A p \in IDs(posts) :
               \A l \in ListCommentsWithDetailsFor(p, v) :
                   \A i \in 1 .. Len(l) :
                       LET c == l[i].Comment.id
                       IN  /\ l[i].UserLiked = Reacted(CommentLikesOf(c), v, 1)
                           /\ l[i].UserDisliked = Reacted(CommentLikesOf(c), v, -1)
                           /\ ~(l[i].UserLiked /\ l[i].UserDisliked)
                           /\ l[i].LikesCount = Valued(CommentLikesOf(c), 1)
                           /\ l[i].DislikesCount = Valued(CommentLikesOf(c), -1)
                           /\ v = 0 => (~l[i].UserLiked /\ ~l[i].UserDisliked)
        /\ \A l \in ListPostsWithDetails(DB, NoOptions, v) :
               \A i \in 1 .. Len(l) :
                   l[i] = GetPostWithDetailsExec(DB, l[i].Post.id, v).detail

(* The post is liked by user 1 and disliked by user 2 and has its comment,     *)
(* which nobody has reacted to: each viewer sees the counts 1 and 1 and the      *)
(* comment count 1, user 1 sees the like as theirs, user 2 the dislike, the      *)
(* anonymous viewer neither, and the comment shows 0 and 0.                      *)
C35_Witness ==
    /\ post_likes = {[user_id |-> 1, post_id |-> 1, reaction |-> 1],
                     [user_id |-> 2, post_id |-> 1, reaction |-> -1]}
    /\ \A v \in ViewerInputs :
          LET r == GetPostWithDetailsExec(DB, 1, v)
          IN  /\ r.err = Nil
              /\ r.detail.LikesCount = 1 /\ r.detail.DislikesCount = 1
              /\ r.detail.CommentsCount = 1
              /\ r.detail.UserLiked = (v = 1)
              /\ r.detail.UserDisliked = (v = 2)
    /\ \E l \in ListCommentsWithDetailsFor(1, 1) :
          /\ Len(l) = 1
          /\ l[1].LikesCount = 0 /\ l[1].DislikesCount = 0
          /\ ~l[1].UserLiked /\ ~l[1].UserDisliked

(* C36: a detail view is a projection of one state of the store also when      *)
(* reactions are set and comments and posts are deleted while it is read; in     *)
(* particular a view that says the viewer liked the post counts at least one     *)
(* like, one that says the viewer disliked it counts at least one dislike, and   *)
(* the viewer is never shown as having both liked and disliked.                  *)
C36_DetailOfOneState ==
    \A w \in Readers :
        (pc[w] = "done" /\ req[w].op = "post_detail" /\ res[w].err = Nil) =>
            /\ res[w].detail.UserLiked => res[w].detail.LikesCount >= 1
            /\ res[w].detail.UserDisliked => res[w].detail.DislikesCount >= 1
            /\ ~(res[w].detail.UserLiked /\ res[w].detail.UserDisliked)

-----------------------------------------------------------------------------
(* Properties of a failing login *)

(* C37: CreateSession is all-or-nothing: when CreateSession(u) fails, at its    *)
(* DELETE or at its INSERT, the session u had before the call is still there     *)
(* and Validate still accepts it.                                                *)
C37_CreateSessionAllOrNothing ==
    \A u \in IDs(users), f \in SessionFaultInputs :
        LET r == CreateSessionExecWithFault(DB, u, NewToken, now, f)
        IN  r.err # Nil =>
                /\ SessionsOf(r.db.sessions, u) = SessionsOf(sessions, u)
                /\ \A x \in SessionsOf(sessions, u) :
                       ValidateSessionExec(r.db, x.token, now).err
                           = ValidateSessionExec(DB, x.token, now).err

-----------------------------------------------------------------------------
(* Properties of concurrent post creation *)

Created(w) == pc[w] = "done" /\ req[w].op = "create_post" /\ "postID" \in DOMAIN req[w]
CategoriesNamed(name) == {c \in categories : c.name = name}

(* C38: category names are unique in every state, and when two CreatePost       *)
(* calls naming the same category, which did not exist, ran concurrently, both   *)
(* have succeeded, one category row has that name, and both posts exist and are  *)
(* linked to it.                                                                 *)
C38_ConcurrentCreatePost ==
    /\ \A c1, c2 \in categories : c1.name = c2.name => c1 = c2
    /\ \A w1, w2 \in Workers :
          (w1 # w2 /\ Created(w1) /\ Created(w2) /\ res[w1].raced /\ res[w2].raced) =>
              /\ res[w1].err = Nil /\ res[w2].err = Nil
              /\ res[w1].id # res[w2].id
              /\ {res[w1].id, res[w2].id} \subseteq IDs(posts)
              /\ Cardinality(CategoriesNamed(News)) = 1
              /\ \A c \in CategoriesNamed(News) :
                     /\ [post_id |-> res[w1].id, category_id |-> c.id] \in post_categories
                     /\ [post_id |-> res[w2].id, category_id |-> c.id] \in post_categories

(* Two requests that overlapped have both created their post, and the one       *)
(* category the first of them created is linked to both.                         *)
C38_Witness ==
    /\ \A w \in Workers : Created(w) /\ res[w].raced /\ res[w].err = Nil
    /\ Cardinality(posts) = 2
    /\ Cardinality(CategoriesNamed(News)) = 1
    /\ \A p \in posts, c \in CategoriesNamed(News) :
           [post_id |-> p.id, category_id |-> c.id] \in post_categories

-----------------------------------------------------------------------------
(* What a reaction and a deletion leave alone *)

(* C39: SetReaction(u, t, v) on a post changes at most the one post_likes row   *)
(* of (u, t): the reactions of other users on t, those of u on other posts, all  *)
(* comment reactions, and all users, posts, comments, categories and sessions    *)
(* are as before, whether the call succeeds or fails; and the same for a comment *)
(* with post and comment reactions exchanged.                                    *)
C39_SetReactionFrame ==
    \A u \in UserIDInputs, t \in 0 .. 2, v \in ReactionInputs :
        /\ LET r == TogglePostReactionExec(DB, u, t, v)
               mine == {x \in post_likes : x.user_id = u /\ x.post_id = t}
               after == {x \in r.db.post_likes : x.user_id = u /\ x.post_id = t}
           IN  /\ r.db = [DB EXCEPT !.post_likes = (@ \ mine) \cup after]
               /\ Cardinality(after) <= 1
        /\ LET r == ToggleCommentReactionExec(DB, u, t, v)
               mine == {x \in comment_likes : x.user_id = u /\ x.comment_id = t}
               after == {x \in r.db.comment_likes : x.user_id = u /\ x.comment_id = t}
           IN  /\ r.db = [DB EXCEPT !.comment_likes = (@ \ mine) \cup after]
               /\ Cardinality(after) <= 1

(* User 2 has reacted to post 1 and user 1 to comment 1, which has the post's   *)
(* number: user 1 liking the post adds one row and user 2 clearing theirs        *)
(* removes one, and the comment's reaction stays in both.                        *)
C39_Witness ==
    /\ \E x \in post_likes : x.user_id = 2 /\ x.post_id = 1
    /\ \E x \in comment_likes : x.user_id = 1 /\ x.comment_id = 1
    /\ TogglePostReactionExec(DB, 1, 1, 1).db.post_likes
           = post_likes \cup {[user_id |-> 1, post_id |-> 1, reaction |-> 1]}
    /\ TogglePostReactionExec(DB, 2, 1, 0).db.post_likes = {}
    /\ TogglePostReactionExec(DB, 1, 1, 0).db = DB
    /\ ToggleCommentReactionExec(DB, 1, 1, -1).db.post_likes = post_likes

(* The comments of the posts other than p. *)
CommentsElsewhere(d, p) == {c.id : c \in {c \in d.comments : c.post_id # p}}

(* C40: a successful DeletePost(p, u) removes nothing that does not belong to   *)
(* p: every other post, the comments, reactions and category links of every      *)
(* other post, the reactions on comments of other posts, all category rows, all  *)
(* users and all sessions are as before.                                          *)
C40_DeletePostFrame ==
    \A p \in 0 .. 3, u \in UserIDInputs :
        LET r == DeletePostTx(DB, p, u)
        IN  r.err = Nil =>
                /\ {x \in r.db.posts : x.id # p} = {x \in posts : x.id # p}
                /\ {x \in r.db.comments : x.post_id # p} = {x \in comments : x.post_id # p}
                /\ {x \in r.db.post_likes : x.post_id # p}
                       = {x \in post_likes : x.post_id # p}
                /\ {x \in r.db.post_categories : x.post_id # p}
                       = {x \in post_categories : x.post_id # p}
                /\ {x \in r.db.comment_likes : x.comment_id \in CommentsElsewhere(DB, p)}
                       = {x \in comment_likes : x.comment_id \in CommentsElsewhere(DB, p)}
                /\ r.db.categories = categories
                /\ r.db.users = users
                /\ r.db.sessions = sessions

(* Both posts are there, each comment has a reaction and user 1 is logged in:   *)
(* user 1 deleting post 1 leaves post 2, its comment, its category links and    *)
(* the reaction on its comment, removes the reaction on the comment of post 1,   *)
(* and keeps the category that only post 1 was in.                               *)
C40_Witness ==
    /\ IDs(posts) = {1, 2}
    /\ \E x \in comment_likes : x.comment_id = 1
    /\ \E x \in comment_likes : x.comment_id = 2
    /\ sessions # {}
    /\ LET r == DeletePostTx(DB, 1, 1)
       IN  /\ r.err = Nil
           /\ IDs(r.db.posts) = {2}
           /\ IDs(r.db.comments) = {2}
           /\ {x.comment_id : x \in r.db.comment_likes} = {2}
           /\ {x.post_id : x \in r.db.post_categories} = {2}
           /\ \E c \in r.db.categories :
                  /\ c.name = News
                  /\ \A x \in post_categories : x.category_id = c.id => x.post_id = 1
====
